---- MODULE Spec2Model ----
(***************************************************************************)
(* Model of the advanced-echo-server request-control pipeline: the echo    *)
(* handler (counter, history recording, delays, error injection, scenario  *)
(* engine, rendering), the scenario definition endpoint and the history    *)
(* listing.  Strings whose content the code inspects (directive values,    *)
(* header names) are sequences of one-character strings, so that parsing   *)
(* and name conversion are computed as the code computes them.             *)
(***************************************************************************)
EXTENDS Integers, Sequences, FiniteSets, TLC

\* ------------------------------------------------------------------ bounds
NumWorkers == 2
MaxRequests == 4
MaxHistory == 2

\* ------------------------------------------------------- program constants
maxDelay == 300000
TimeoutSleepMs == 65000
ClientTimeoutMs == 30000

\* -------------------------------------------------------- string helpers
LowerLetters == <<"a","b","c","d","e","f","g","h","i","j","k","l","m",
                  "n","o","p","q","r","s","t","u","v","w","x","y","z">>
UpperLetters == <<"A","B","C","D","E","F","G","H","I","J","K","L","M",
                  "N","O","P","Q","R","S","T","U","V","W","X","Y","Z">>
Digits == <<"0","1","2","3","4","5","6","7","8","9">>

IndexIn(c, alphabet) ==
    IF \E i \in 1..Len(alphabet) : alphabet[i] = c
    THEN CHOOSE i \in 1..Len(alphabet) : alphabet[i] = c
    ELSE 0

IsLower(c) == IndexIn(c, LowerLetters) > 0
IsUpper(c) == IndexIn(c, UpperLetters) > 0
IsDigit(c) == IndexIn(c, Digits) > 0

ToLowerChar(c) == IF IsUpper(c) THEN LowerLetters[IndexIn(c, UpperLetters)] ELSE c
ToUpperChar(c) == IF IsLower(c) THEN UpperLetters[IndexIn(c, LowerLetters)] ELSE c

\* strings.ToLower
ToLower(s) == [i \in 1..Len(s) |-> ToLowerChar(s[i])]

\* strings.ReplaceAll for one-character old and new
ReplaceAll(s, old, new) == [i \in 1..Len(s) |-> IF s[i] = old THEN new ELSE s[i]]

\* strings.HasSuffix / strings.TrimSuffix
HasSuffix(s, suf) ==
    /\ Len(s) >= Len(suf)
    /\ SubSeq(s, Len(s) - Len(suf) + 1, Len(s)) = suf

TrimSuffix(s, suf) ==
    IF HasSuffix(s, suf) THEN SubSeq(s, 1, Len(s) - Len(suf)) ELSE s

\* strings.Contains for a one-character substring
Contains(s, c) == \E i \in 1..Len(s) : s[i] = c

\* strings.Split on a one-character separator: the list of the pieces
RECURSIVE Split(_, _)
Split(s, sep) ==
    IF ~Contains(s, sep)
    THEN <<s>>
    ELSE LET i == CHOOSE k \in 1..Len(s) :
                      s[k] = sep /\ \A j \in 1..(k - 1) : s[j] # sep
         IN  <<SubSeq(s, 1, i - 1)>> \o Split(SubSeq(s, i + 1, Len(s)), sep)

\* value of a string of decimal digits
RECURSIVE DigitsValue(_)
DigitsValue(s) ==
    IF s = <<>> THEN 0
    ELSE 10 * DigitsValue(SubSeq(s, 1, Len(s) - 1)) + (IndexIn(s[Len(s)], Digits) - 1)

\* strconv.Atoi: optional sign, then one or more decimal digits; err otherwise
Atoi(s) ==
    LET signed == Len(s) > 0 /\ s[1] \in {"+", "-"}
        digs   == IF signed THEN Tail(s) ELSE s
        ok     == Len(digs) > 0 /\ \A i \in 1..Len(digs) : IsDigit(digs[i])
    IN  IF ~ok THEN [err |-> TRUE, val |-> 0]
        ELSE [err |-> FALSE,
              val |-> IF signed /\ s[1] = "-" THEN 0 - DigitsValue(digs)
                      ELSE DigitsValue(digs)]

Min(a, b) == IF a < b THEN a ELSE b

\* ------------------------------------------------- header name conversion
\* textproto.CanonicalMIMEHeaderKey (applied by net/http to request header
\* names on arrival and by http.Header.Set/Get to their key): a key holding a
\* space is returned unchanged; otherwise the first letter and every letter
\* after a hyphen are upper-cased and the other letters lower-cased.
CanonicalMIMEHeaderKey(s) ==
    IF Contains(s, " ") THEN s
    ELSE [i \in 1..Len(s) |->
            IF i = 1 \/ s[i - 1] = "-" THEN ToUpperChar(s[i]) ELSE ToLowerChar(s[i])]

\* strings.Title: upper-cases the first letter of every word; letters, digits
\* and the underscore continue a word, everything else separates words.
IsSeparator(c) == ~(IsLower(c) \/ IsUpper(c) \/ IsDigit(c) \/ c = "_")

Title(s) ==
    [i \in 1..Len(s) |->
        IF i = 1 \/ IsSeparator(s[i - 1]) THEN ToUpperChar(s[i]) ELSE s[i]]

\* echoCustomHeaders: response header name for the request header
\* X-Echo-Set-Header-<suffix> (suffix as it stands in r.Header).
SetHeaderName(suffix) ==
    ReplaceAll(Title(ReplaceAll(suffix, "-", " ")), " ", "-")

\* setEnvHeaders: response header name for the variable ECHO_HEADER_<name>.
EnvHeaderName(name) == ReplaceAll(name, "_", "-")

\* ----------------------------------------------------- directive controls
DelayHeaders == <<"X-Echo-Delay", "X-Echo-Jitter", "X-Echo-Random-Delay",
                  "X-Echo-Exponential", "X-Echo-Latency">>
TestingHeaders == <<"X-Echo-Status", "X-Echo-Error", "X-Echo-Chaos">>
ControlHeaders == {DelayHeaders[i] : i \in 1..Len(DelayHeaders)}
                    \cup {TestingHeaders[i] : i \in 1..Len(TestingHeaders)}

EnvOf(header) ==
    CASE header = "X-Echo-Delay"        -> "ECHO_DELAY"
      [] header = "X-Echo-Jitter"       -> "ECHO_JITTER"
      [] header = "X-Echo-Random-Delay" -> "ECHO_RANDOM_DELAY"
      [] header = "X-Echo-Exponential"  -> "ECHO_EXPONENTIAL"
      [] header = "X-Echo-Latency"      -> "ECHO_LATENCY"
      [] header = "X-Echo-Status"       -> "ECHO_STATUS"
      [] header = "X-Echo-Error"        -> "ECHO_ERROR"
      [] header = "X-Echo-Chaos"        -> "ECHO_CHAOS"

EnvNames == {EnvOf(h) : h \in ControlHeaders}

\* getHeaderOrEnv: the header's value when non-empty, else the variable's.
getHeaderOrEnv_envFirst(hdr, environ, header, envName) ==
    IF environ[envName] # <<>> THEN environ[envName] ELSE hdr[header]

getHeaderOrEnv_validated(hdr, environ, header, envName) ==
    IF hdr[header] # <<>> /\ ~Atoi(hdr[header]).err
    THEN hdr[header] ELSE environ[envName]

getHeaderOrEnv(hdr, environ, header, envName) ==
    IF hdr[header] # <<>> THEN hdr[header] ELSE environ[envName]

Resolve(hdr, environ, header) == getHeaderOrEnv(hdr, environ, header, EnvOf(header))

\* rng.Intn(n): panics for n <= 0, else any value of 0..n-1
IntnPanics(n) == n <= 0
IntnDraws(n) == 0..(n - 1)

MS == <<"m", "s">>

\* -------------------------------------------------------------- applyDelays
\* Each family yields the set of its possible outcomes, empty when the family
\* is not honoured (value absent or not parsed) and the next one is tried.
Slept(family, ms) == [family |-> family, ms |-> ms, panic |-> FALSE]
DelayPanic(family) == [family |-> family, ms |-> 0, panic |-> TRUE]

SimpleDelay_unclamped(hdr, environ) ==
    LET delayStr == Resolve(hdr, environ, "X-Echo-Delay")
        a == Atoi(TrimSuffix(delayStr, MS))
    IN  IF delayStr # <<>> /\ ~a.err /\ a.val > 0
        THEN {Slept("delay", a.val)}
        ELSE {}

SimpleDelay(hdr, environ) ==
    LET delayStr == Resolve(hdr, environ, "X-Echo-Delay")
        a == Atoi(TrimSuffix(delayStr, MS))
    IN  IF delayStr # <<>> /\ ~a.err /\ a.val > 0
        THEN {Slept("delay", Min(a.val, maxDelay))}
        ELSE {}

Clamp(lo, x, hi) == IF x < lo THEN lo ELSE IF x > hi THEN hi ELSE x

JitterDelay(hdr, environ) ==
    LET jitterStr == Resolve(hdr, environ, "X-Echo-Jitter")
        parts == Split(jitterStr, ",")
    IN  IF jitterStr = <<>> \/ Len(parts) # 2 THEN {}
        ELSE LET base == Atoi(parts[1])
                 variance == Atoi(parts[2])
             IN  IF base.err \/ variance.err \/ variance.val < 0 THEN {}
                 ELSE IF IntnPanics(variance.val * 2) THEN {DelayPanic("jitter")}
                 ELSE {Slept("jitter", Clamp(0, base.val + d - variance.val, maxDelay)) :
                          d \in IntnDraws(variance.val * 2)}

RandomDelay(hdr, environ) ==
    LET randomStr == Resolve(hdr, environ, "X-Echo-Random-Delay")
        parts == Split(randomStr, ",")
    IN  IF randomStr = <<>> \/ Len(parts) # 2 THEN {}
        ELSE LET min == Atoi(parts[1])
                 max == Atoi(parts[2])
             IN  IF min.err \/ max.err \/ max.val < min.val THEN {}
                 ELSE LET max2 == Min(max.val, maxDelay)
                      IN  IF IntnPanics(max2 - min.val + 1) THEN {DelayPanic("random")}
                          ELSE {Slept("random", min.val + d) :
                                   d \in IntnDraws(max2 - min.val + 1)}

RECURSIVE Pow2(_)
Pow2(n) == IF n <= 0 THEN 1 ELSE 2 * Pow2(n - 1)

\* int(float64(x) * 0.25) for 0 <= x <= 300000: exact, truncated toward zero
Quarter(x) == x \div 4

ExponentialDelay(hdr, environ) ==
    LET expStr == Resolve(hdr, environ, "X-Echo-Exponential")
        parts == Split(expStr, ",")
    IN  IF expStr = <<>> \/ Len(parts) # 2 THEN {}
        ELSE LET base == Atoi(parts[1])
                 attempt == Atoi(parts[2])
             IN  IF base.err \/ base.val <= 0 \/ attempt.err \/ attempt.val <= 0 THEN {}
                 ELSE LET exponentialDelay == Min(base.val * Pow2(attempt.val - 1), maxDelay)
                          jitter == Quarter(exponentialDelay)
                      IN  IF IntnPanics(jitter * 2) THEN {DelayPanic("exponential")}
                          ELSE {Slept("exponential",
                                      IF exponentialDelay + d - jitter < 0 THEN 0
                                      ELSE exponentialDelay + d - jitter) :
                                   d \in IntnDraws(jitter * 2)}

\* The latency family ends applyDelays whether or not it slept: "none" marks
\* a value that selected no delay.
LatencyDelay(hdr, environ) ==
    LET latencyStr == Resolve(hdr, environ, "X-Echo-Latency")
    IN  IF latencyStr = <<>> THEN {Slept("none", 0)}
        ELSE IF Contains(latencyStr, "-")
        THEN LET parts == Split(latencyStr, "-")
             IN  IF Len(parts) # 2 THEN {Slept("none", 0)}
                 ELSE LET min == Atoi(TrimSuffix(parts[1], MS)).val
                          max == Atoi(TrimSuffix(parts[2], MS)).val
                      IN  IF max < min THEN {Slept("none", 0)}
                          ELSE {Slept("latency", min + d) : d \in IntnDraws(max - min + 1)}
        ELSE LET a == Atoi(TrimSuffix(latencyStr, MS))
             IN  IF a.err THEN {Slept("none", 0)}
                 ELSE {Slept("latency", Min(a.val, maxDelay))}

\* Number of delay directives applyDelays has resolved when the given family
\* ends it: each family is resolved only after the ones before it fell through.
DelaysConsulted(family) ==
    CASE family = "delay"       -> 1
      [] family = "jitter"      -> 2
      [] family = "random"      -> 3
      [] family = "exponential" -> 4
      [] OTHER                  -> 5

applyDelays_jitterFirst(hdr, environ) ==
    IF JitterDelay(hdr, environ) # {} THEN JitterDelay(hdr, environ)
    ELSE IF SimpleDelay(hdr, environ) # {} THEN SimpleDelay(hdr, environ)
    ELSE IF RandomDelay(hdr, environ) # {} THEN RandomDelay(hdr, environ)
    ELSE IF ExponentialDelay(hdr, environ) # {} THEN ExponentialDelay(hdr, environ)
    ELSE LatencyDelay(hdr, environ)

applyDelays(hdr, environ) ==
    IF SimpleDelay(hdr, environ) # {} THEN SimpleDelay(hdr, environ)
    ELSE IF JitterDelay(hdr, environ) # {} THEN JitterDelay(hdr, environ)
    ELSE IF RandomDelay(hdr, environ) # {} THEN RandomDelay(hdr, environ)
    ELSE IF ExponentialDelay(hdr, environ) # {} THEN ExponentialDelay(hdr, environ)
    ELSE LatencyDelay(hdr, environ)

\* The latency value is a well-formed range, the form that draws
LatencyRange(hdr, environ) ==
    LET latencyStr == Resolve(hdr, environ, "X-Echo-Latency")
        parts == Split(latencyStr, "-")
    IN  /\ latencyStr # <<>>
        /\ Contains(latencyStr, "-")
        /\ Len(parts) = 2
        /\ Atoi(TrimSuffix(parts[2], MS)).val >= Atoi(TrimSuffix(parts[1], MS)).val

\* applyDelays reaches a call of rng.Intn: the family that ends it is the
\* jitter, the random range, the exponential or the latency range
DelayDraws(hdr, environ) ==
    IF SimpleDelay(hdr, environ) # {} THEN FALSE
    ELSE IF JitterDelay(hdr, environ) # {} THEN TRUE
    ELSE IF RandomDelay(hdr, environ) # {} THEN TRUE
    ELSE IF ExponentialDelay(hdr, environ) # {} THEN TRUE
    ELSE LatencyRange(hdr, environ)

\* ------------------------------------------------ processTestingFeatures
\* the keywords of the error switch, as character sequences
Kw_timeout == <<"t", "i", "m", "e", "o", "u", "t">>
Kw_500 == <<"5", "0", "0">>
Kw_internal == <<"i", "n", "t", "e", "r", "n", "a", "l">>
Kw_502 == <<"5", "0", "2">>
Kw_bad_gateway == <<"b", "a", "d", "-", "g", "a", "t", "e", "w", "a", "y">>
Kw_503 == <<"5", "0", "3">>
Kw_unavailable == <<"u", "n", "a", "v", "a", "i", "l", "a", "b", "l", "e">>
Kw_504 == <<"5", "0", "4">>
Kw_gateway_timeout == <<"g", "a", "t", "e", "w", "a", "y", "-", "t", "i", "m", "e", "o", "u", "t">>
Kw_429 == <<"4", "2", "9">>
Kw_rate_limit == <<"r", "a", "t", "e", "-", "l", "i", "m", "i", "t">>
Kw_random == <<"r", "a", "n", "d", "o", "m">>

\* A response as the handler wrote it; status 0 means nothing was written.
NoResponse ==
    [status |-> 0, body |-> "", contentType |-> "", forced |-> FALSE,
     scenario |-> FALSE, retryAfter |-> "", encoding |-> "", count |-> 0,
     custom |-> <<>>]

\* setResponseContentType
setResponseContentType(r) ==
    IF r.xContentType # "" THEN r.xContentType
    ELSE IF r.contentType # "" THEN r.contentType
    ELSE "text/plain"

\* echoRequestInfo: the textual dump of the request (its first line)
echoRequestInfo(r) == r.method \o " " \o r.path \o " HTTP/1.1"

PlainText(status, body) ==
    [NoResponse EXCEPT !.status = status, !.body = body, !.contentType = "text/plain"]

ForcedStatus(hdr, environ, r) ==
    LET statusStr == Resolve(hdr, environ, "X-Echo-Status")
        a == Atoi(statusStr)
    IN  IF statusStr # <<>> /\ ~a.err /\ a.val >= 100 /\ a.val <= 599
        THEN {[NoResponse EXCEPT
                 !.forced = TRUE,
                 !.status = a.val,
                 !.body = IF r.method = "GET" /\ r.body = "" THEN echoRequestInfo(r) ELSE r.body,
                 !.contentType = IF r.method = "GET" /\ r.body = "" THEN "text/plain"
                                 ELSE setResponseContentType(r)]}
        ELSE {}

RandomErrors == <<500, 502, 503, 504, 429>>
ChaosErrors == <<500, 502, 503, 504, 408, 429>>

ForcedError_caseSensitive(hdr, environ) ==
    LET errorStr == Resolve(hdr, environ, "X-Echo-Error")
        k == errorStr
    IN  IF errorStr = <<>> THEN {}
        ELSE IF k = Kw_timeout THEN {NoResponse}
        ELSE IF k \in {Kw_500, Kw_internal}
             THEN {PlainText(500, "Simulated internal server error")}
        ELSE IF k \in {Kw_502, Kw_bad_gateway}
             THEN {PlainText(502, "Simulated bad gateway")}
        ELSE IF k \in {Kw_503, Kw_unavailable}
             THEN {PlainText(503, "Simulated service unavailable")}
        ELSE IF k \in {Kw_504, Kw_gateway_timeout}
             THEN {PlainText(504, "Simulated gateway timeout")}
        ELSE IF k \in {Kw_429, Kw_rate_limit}
             THEN {[PlainText(429, "Simulated rate limit exceeded") EXCEPT !.retryAfter = "60"]}
        ELSE IF k = Kw_random
             THEN {PlainText(RandomErrors[i + 1],
                             "Random simulated error: " \o ToString(RandomErrors[i + 1])) :
                      i \in IntnDraws(Len(RandomErrors))}
        ELSE {}

ForcedError(hdr, environ) ==
    LET errorStr == Resolve(hdr, environ, "X-Echo-Error")
        k == ToLower(errorStr)
    IN  IF errorStr = <<>> THEN {}
        ELSE IF k = Kw_timeout THEN {NoResponse}
        ELSE IF k \in {Kw_500, Kw_internal}
             THEN {PlainText(500, "Simulated internal server error")}
        ELSE IF k \in {Kw_502, Kw_bad_gateway}
             THEN {PlainText(502, "Simulated bad gateway")}
        ELSE IF k \in {Kw_503, Kw_unavailable}
             THEN {PlainText(503, "Simulated service unavailable")}
        ELSE IF k \in {Kw_504, Kw_gateway_timeout}
             THEN {PlainText(504, "Simulated gateway timeout")}
        ELSE IF k \in {Kw_429, Kw_rate_limit}
             THEN {[PlainText(429, "Simulated rate limit exceeded") EXCEPT !.retryAfter = "60"]}
        ELSE IF k = Kw_random
             THEN {PlainText(RandomErrors[i + 1],
                             "Random simulated error: " \o ToString(RandomErrors[i + 1])) :
                      i \in IntnDraws(Len(RandomErrors))}
        ELSE {}

\* the chaos rate in force: 0 unless the directive is an integer of 1..100
ChaosRate(hdr, environ) ==
    LET chaosStr == Resolve(hdr, environ, "X-Echo-Chaos")
        a == Atoi(chaosStr)
    IN  IF chaosStr # <<>> /\ ~a.err /\ a.val > 0 /\ a.val <= 100 THEN a.val ELSE 0

\* if rng.Intn(100) < rate
ChaosHit_atMost(rate, draw) == draw <= rate

ChaosHit(rate, draw) == draw < rate

\* the responses a chaos injection can write: status := errors[rng.Intn(len(errors))]
ChaosResponses ==
    {PlainText(ChaosErrors[i + 1],
               "Chaos error injection: " \o ToString(ChaosErrors[i + 1])) :
        i \in IntnDraws(Len(ChaosErrors))}

\* the outcome of a request that no step handled
NotHandled(draw) ==
    [handled |-> FALSE, kind |-> "none", resp |-> NoResponse, draw |-> draw]

\* The chaos step: no draw (draw = -1) when the rate is not an integer of
\* 1..100, else one draw of rng.Intn(100) that decides whether to inject.
ChaosStep(hdr, environ) ==
    LET rate == ChaosRate(hdr, environ)
    IN  IF rate = 0 THEN {NotHandled(0 - 1)}
        ELSE UNION {IF ChaosHit(rate, d)
                    THEN {[handled |-> TRUE, kind |-> "chaos", resp |-> x, draw |-> d] :
                             x \in ChaosResponses}
                    ELSE {NotHandled(d)} :
                       d \in IntnDraws(100)}

\* Number of testing directives processTestingFeatures resolves.
TestingConsulted(hdr, environ, r) ==
    IF ForcedStatus(hdr, environ, r) # {} THEN 1
    ELSE IF ForcedError(hdr, environ) # {} THEN 2
    ELSE 3

\* processTestingFeatures: the set of outcomes [handled, kind, resp, draw]
processTestingFeatures_errorFirst(hdr, environ, r) ==
    IF ForcedError(hdr, environ) # {}
    THEN {[handled |-> TRUE, kind |-> "error", resp |-> x, draw |-> 0 - 1] :
             x \in ForcedError(hdr, environ)}
    ELSE IF ForcedStatus(hdr, environ, r) # {}
    THEN {[handled |-> TRUE, kind |-> "status", resp |-> x, draw |-> 0 - 1] :
             x \in ForcedStatus(hdr, environ, r)}
    ELSE ChaosStep(hdr, environ)

processTestingFeatures_chaosFirst(hdr, environ, r) ==
    IF ChaosRate(hdr, environ) > 0 THEN ChaosStep(hdr, environ)
    ELSE IF ForcedStatus(hdr, environ, r) # {}
    THEN {[handled |-> TRUE, kind |-> "status", resp |-> x, draw |-> 0 - 1] :
             x \in ForcedStatus(hdr, environ, r)}
    ELSE IF ForcedError(hdr, environ) # {}
    THEN {[handled |-> TRUE, kind |-> "error", resp |-> x, draw |-> 0 - 1] :
             x \in ForcedError(hdr, environ)}
    ELSE {NotHandled(0 - 1)}

processTestingFeatures(hdr, environ, r) ==
    IF ForcedStatus(hdr, environ, r) # {}
    THEN {[handled |-> TRUE, kind |-> "status", resp |-> x, draw |-> 0 - 1] :
             x \in ForcedStatus(hdr, environ, r)}
    ELSE IF ForcedError(hdr, environ) # {}
    THEN {[handled |-> TRUE, kind |-> "error", resp |-> x, draw |-> 0 - 1] :
             x \in ForcedError(hdr, environ)}
    ELSE ChaosStep(hdr, environ)

\* ------------------------------------------------- scenario response delay
\* processScenario's delay step: the set of [slept, ms] outcomes for a
\* response's delay string.
NoSleep == [slept |-> FALSE, ms |-> 0]

scenarioDelay(delay) ==
    IF delay = <<>> THEN {NoSleep}
    ELSE IF Contains(delay, "-")
    THEN LET parts == Split(delay, "-")
         IN  IF Len(parts) # 2 THEN {NoSleep}
             ELSE LET min == Atoi(TrimSuffix(parts[1], MS))
                      max == Atoi(TrimSuffix(parts[2], MS))
                  IN  IF min.err \/ max.err \/ max.val < min.val THEN {NoSleep}
                      ELSE {[slept |-> TRUE, ms |-> min.val + d] :
                               d \in IntnDraws(max.val - min.val + 1)}
    ELSE LET a == Atoi(TrimSuffix(delay, MS))
         IN  IF a.err THEN {NoSleep}
             ELSE {[slept |-> TRUE, ms |-> Min(a.val, maxDelay)]}

\* ---------------------------------------------------------- response headers
\* http.Header.Set on the response's custom headers (a function from header
\* name to value): the key is canonicalised, an existing value is replaced.
HeaderSet(h, name, value) ==
    LET key == CanonicalMIMEHeaderKey(name)
    IN  [n \in DOMAIN h \cup {key} |-> IF n = key THEN value ELSE h[n]]

\* echoCustomHeaders, the X-Echo-Set-Header-* loop; setHeaders lists the
\* request's headers of that prefix as [suffix, value], suffix as sent.
RECURSIVE echoCustomHeaders(_, _)
echoCustomHeaders(h, setHeaders) ==
    IF setHeaders = <<>> THEN h
    ELSE echoCustomHeaders(
             HeaderSet(h, SetHeaderName(CanonicalMIMEHeaderKey(Head(setHeaders).suffix)),
                       Head(setHeaders).value),
             Tail(setHeaders))

\* setEnvHeaders; envHeaders lists the ECHO_HEADER_* variables as [name, value]
RECURSIVE setEnvHeaders(_, _)
setEnvHeaders(h, envHeaders) ==
    IF envHeaders = <<>> THEN h
    ELSE setEnvHeaders(HeaderSet(h, EnvHeaderName(Head(envHeaders).name),
                                 Head(envHeaders).value),
                       Tail(envHeaders))

\* echoHandler lines 63-68: request's set-headers first, environment's after
CustomHeaders(setHeaders, envHeaders) ==
    setEnvHeaders(echoCustomHeaders(<<>>, setHeaders), envHeaders)

Kw_gzip == <<"g", "z", "i", "p">>

\* echoHandler lines 70-101: body, content type and compression of a normal echo
RenderEcho(r, currentCount, envHeaders) ==
    LET dump == r.method = "GET" /\ r.body = ""
        size == Atoi(r.responseSize)
        sized == r.responseSize # <<>>
        body == IF dump THEN echoRequestInfo(r)
                ELSE IF sized
                     THEN (IF ~size.err /\ size.val > 0
                           THEN "random bytes: " \o ToString(size.val) ELSE "")
                     ELSE r.body
        ctype == IF dump THEN "text/plain"
                 ELSE IF sized
                      THEN (IF ~size.err /\ size.val > 0
                            THEN "application/octet-stream" ELSE "")
                      ELSE setResponseContentType(r)
        gz == ToLower(r.compress) = Kw_gzip
    IN  [NoResponse EXCEPT
           !.status = 200,
           !.body = IF gz THEN "gzip(" \o body \o ")" ELSE body,
           !.contentType = ctype,
           !.encoding = IF gz THEN "gzip" ELSE "",
           !.count = currentCount,
           !.custom = CustomHeaders(r.setHeaders, envHeaders)]

\* ------------------------------------------------------------------- state
VARIABLES
    pc,              \* per worker: position of the handler it runs
    req,             \* per worker: the request being handled
    loc,             \* per worker: the handler's local variables
    resp,            \* per worker: the response written so far
    requestCounter,  \* main.go: requestCounter
    counterMutex,    \* main.go: counterMutex (0 free, else the holder)
    historyMutex,    \* main.go: historyMutex (0 free, else the holder)
    requestHistory,  \* main.go: requestHistory
    scenarios,       \* main.go: scenarios, path -> responses
    scenarioIndex,   \* main.go: scenarioIndex, path -> cursor
    config,          \* bootstrap.go: config (the fields the pipeline reads)
    environ,         \* the process environment: control variable -> value
    envHeaders,      \* the process environment: the ECHO_HEADER_* variables
    now,             \* the clock read by time.Now()
    started,         \* history variable: number of requests accepted so far
    recorded,        \* history variable: every record ever appended, in order
    visits,          \* history variable: per path, cursor loads since install
    raced,           \* history variable: per path, the last install overlapped
                     \* a request that had loaded the definition or the
                     \* cursor and had not yet stored the cursor
    replaced         \* history variable: per path, the cursor and the length
                     \* of the definition that the last install overwrote

vars == <<pc, req, loc, resp, requestCounter, counterMutex, historyMutex,
          requestHistory, scenarios, scenarioIndex, config, environ, envHeaders,
          now, started, recorded, visits, raced, replaced>>

Workers == 1..NumWorkers
Paths == {"/a", "/b"}
Finished == {"done", "panic"}

NoLocals ==
    [currentCount |-> 0, historySize |-> 0, directive |-> <<>>, family |-> "",
     slept |-> 0, errorSlept |-> 0, scenarioSlept |-> 0, handledBy |-> "", responses |-> <<>>, idx |-> 0, index |-> 0,
     picked |-> <<>>, stored |-> 0, k |-> 0, i |-> 0, listing |-> <<>>,
     recordings |-> 0, found |-> FALSE, record |-> <<>>, upstream |-> 0,
     clientErr |-> FALSE, clientResp |-> NoResponse, clientEnd |-> "",
     clientWait |-> 0,
     before |-> [counter |-> 0, recorded |-> 0, index |-> <<>>],
     httpReq |-> <<>>, attempts |-> 0, supplied |-> "", requestID |-> "",
     limited |-> FALSE, torn |-> FALSE, listedAt |-> 0]

NoHeaders == [h \in ControlHeaders |-> <<>>]
NoEnviron == [e \in EnvNames |-> <<>>]

BaseRequest ==
    [kind |-> "echo", path |-> "/a", method |-> "GET", body |-> "",
     bodyErr |-> FALSE, id |-> "id1", hdr |-> NoHeaders, setHeaders |-> <<>>,
     responseSize |-> <<>>, compress |-> <<>>, contentType |-> "",
     xContentType |-> "", payload |-> <<>>, badJSON |-> FALSE,
     acceptEncoding |-> "", replayID |-> "", target |-> ""]

\* sync.Map Store
MapStore_alone(m, key, value) == [x \in {key} |-> value]

MapStore(m, key, value) ==
    [x \in DOMAIN m \cup {key} |-> IF x = key THEN value ELSE m[x]]

\* the state after construction (initializeServer, no scenario file)
InitState(configs, environs, envHeaderLists) ==
    /\ pc = [w \in Workers |-> "idle"]
    /\ req = [w \in Workers |-> BaseRequest]
    /\ loc = [w \in Workers |-> NoLocals]
    /\ resp = [w \in Workers |-> NoResponse]
    /\ requestCounter = 0
    /\ counterMutex = 0
    /\ historyMutex = 0
    /\ requestHistory = <<>>
    /\ scenarios = <<>>
    /\ scenarioIndex = <<>>
    /\ config \in configs
    /\ environ \in environs
    /\ envHeaders \in envHeaderLists
    /\ now = 0
    /\ started = 0
    /\ recorded = <<>>
    /\ visits = [p \in Paths |-> 0]
    /\ raced = [p \in Paths |-> FALSE]
    /\ replaced = [p \in Paths |-> [cursor |-> 0 - 1, len |-> 0 - 1]]

\* no rate limiter is configured
InitWith(historySizes, environs, envHeaderLists) ==
    InitState({[HistorySize |-> n, RateLimitRPS |-> 0] : n \in historySizes},
              environs, envHeaderLists)

\* sequential: a request is accepted only when no other one is in flight
Alone(w, sequential) == sequential => \A v \in Workers \ {w} : pc[v] = "idle"

\* a worker accepts a request of the given set
Accept(w, requests, sequential) ==
    /\ pc[w] = "idle"
    /\ started < MaxRequests
    /\ Alone(w, sequential)
    /\ \E r \in requests :
          /\ req' = [req EXCEPT ![w] = r]
          /\ pc' = [pc EXCEPT ![w] = r.kind]
    /\ started' = started + 1
    /\ UNCHANGED <<loc, resp, requestCounter, counterMutex, historyMutex,
                   requestHistory, scenarios, scenarioIndex, config, environ,
                   envHeaders, now, recorded, visits, raced, replaced>>

\* the replay client of some worker is waiting for this worker's response
Awaited(w) == \E u \in Workers : pc[u] = "rp_wait" /\ loc[u].upstream = w

\* the handler has returned (or net/http has recovered its panic): the worker
\* is free for the next request

Finish(w) ==
    /\ pc[w] \in Finished
    /\ ~Awaited(w)
    /\ pc' = [pc EXCEPT ![w] = "idle"]
    /\ req' = [req EXCEPT ![w] = BaseRequest]
    /\ loc' = [loc EXCEPT ![w] = NoLocals]
    /\ resp' = [resp EXCEPT ![w] = NoResponse]
    /\ UNCHANGED <<requestCounter, counterMutex, historyMutex, requestHistory,
                   scenarios, scenarioIndex, config, environ, envHeaders, now,
                   started, recorded, visits, raced, replaced>>

\* ------------------------------------------------------------- echoHandler
\* counterMutex.Lock()
\* counterMutex.Lock() returns only when no worker holds the mutex
CounterLockable_always(mutex) == TRUE

CounterLockable(mutex) == mutex = 0

\* counterMutex.Lock() and the load of requestCounter++
EchoLockCounter(w) ==
    /\ pc[w] = "echo"
    /\ CounterLockable(counterMutex)
    /\ counterMutex' = w
    /\ loc' = [loc EXCEPT ![w].currentCount = requestCounter]
    /\ pc' = [pc EXCEPT ![w] = "incr"]
    /\ UNCHANGED <<req, resp, requestCounter, historyMutex, requestHistory,
                   scenarios, scenarioIndex, config, environ, envHeaders, now,
                   started, recorded, visits, raced, replaced>>

\* the store of requestCounter++; currentCount := requestCounter;
\* counterMutex.Unlock()
EchoIncrement(w) ==
    /\ pc[w] = "incr"
    /\ requestCounter' = loc[w].currentCount + 1
    /\ loc' = [loc EXCEPT ![w].currentCount = requestCounter']
    /\ counterMutex' = 0
    /\ pc' = [pc EXCEPT ![w] = "body"]
    /\ UNCHANGED <<req, resp, historyMutex, requestHistory, scenarios,
                   scenarioIndex, config, environ, envHeaders, now, started,
                   recorded, visits, raced, replaced>>

\* if historySize > 0 { recordRequest(r, body) }; applyDelays(r)
AfterBody_skip(historySize) == "delays"

AfterBody(historySize) == IF historySize > 0 THEN "rec_lock" ELSE "delays"

\* read config.HistorySize, read the body (400 on a read error), and decide
\* whether recordRequest is called
EchoReadBody(w) ==
    /\ pc[w] = "body"
    /\ loc' = [loc EXCEPT ![w].historySize = config.HistorySize]
    /\ IF req[w].bodyErr
       THEN /\ resp' = [resp EXCEPT ![w] = PlainText(400, "Error reading body")]
            /\ pc' = [pc EXCEPT ![w] = "done"]
       ELSE /\ resp' = resp
            /\ pc' = [pc EXCEPT ![w] = AfterBody(config.HistorySize)]
    /\ UNCHANGED <<req, requestCounter, counterMutex, historyMutex, requestHistory,
                   scenarios, scenarioIndex, config, environ, envHeaders, now,
                   started, recorded, visits, raced, replaced>>

\* ----------------------------------------------------------- recordRequest
\* historyMutex.Lock()
RecordLock(w) ==
    /\ pc[w] = "rec_lock"
    /\ historyMutex = 0
    /\ historyMutex' = w
    /\ pc' = [pc EXCEPT ![w] = "rec_append"]
    /\ UNCHANGED <<req, loc, resp, requestCounter, counterMutex, requestHistory,
                   scenarios, scenarioIndex, config, environ, envHeaders, now,
                   started, recorded, visits, raced, replaced>>

\* r.Header.Clone(): the control headers and the other headers the pipeline reads
HeaderClone(r) ==
    [hdr |-> r.hdr, setHeaders |-> r.setHeaders, responseSize |-> r.responseSize,
     compress |-> r.compress, contentType |-> r.contentType,
     xContentType |-> r.xContentType, acceptEncoding |-> r.acceptEncoding]

RequestRecord(r, timestamp) ==
    [ID |-> r.id, Timestamp |-> timestamp, Method |-> r.method, URL |-> r.path,
     Headers |-> HeaderClone(r), Body |-> r.body]

\* requestHistory = append(requestHistory, record)
RecordAppend(w) ==
    /\ pc[w] = "rec_append"
    /\ now' = now + 1
    /\ requestHistory' = Append(requestHistory, RequestRecord(req[w], now'))
    /\ recorded' = Append(recorded, RequestRecord(req[w], now'))
    /\ loc' = [loc EXCEPT ![w].recordings = @ + 1]
    /\ pc' = [pc EXCEPT ![w] = "rec_evict"]
    /\ UNCHANGED <<req, resp, requestCounter, counterMutex, historyMutex,
                   scenarios, scenarioIndex, config, environ, envHeaders,
                   started, visits, raced, replaced>>

\* if len(requestHistory) > historySize { requestHistory = requestHistory[1:] }
Evict_never(history, historySize) == history

Evict_newest(history, historySize) ==
    IF Len(history) > historySize THEN SubSeq(history, 1, Len(history) - 1) ELSE history

Evict(history, historySize) ==
    IF Len(history) > historySize THEN Tail(history) ELSE history

\* the eviction and the deferred historyMutex.Unlock()
RecordEvict(w) ==
    /\ pc[w] = "rec_evict"
    /\ requestHistory' = Evict(requestHistory, config.HistorySize)
    /\ historyMutex' = 0
    /\ pc' = [pc EXCEPT ![w] = "delays"]
    /\ UNCHANGED <<req, loc, resp, requestCounter, counterMutex, scenarios,
                   scenarioIndex, config, environ, envHeaders, now, started,
                   recorded, visits, raced, replaced>>

\* ------------------------------------------- applyDelays, as a handler step
Consulted(headers, n, hdr) ==
    [h \in {headers[i] : i \in 1..n} |-> Resolve(hdr, environ, h)]

\* applyDelays calls rng.Intn on the process-wide rng, a *rand.Rand that no
\* lock guards: a worker inside the call is at "drawing".  A draw that
\* overlaps another worker's draw is a data race on the generator's state,
\* after which the call returns some value of its range or panics on an
\* index out of range.
Drawing(w) == pc[w] = "drawing"

Overlapped(w) == {v \in Workers \ {w} : Drawing(v)}

EchoApplyDelays(w) ==
    /\ pc[w] \in {"delays", "drawing"}
    /\ IF pc[w] = "delays" /\ DelayDraws(req[w].hdr, environ)
       THEN /\ pc' = [pc EXCEPT ![w] = "drawing"]
            /\ loc' = [v \in Workers |->
                         IF Overlapped(w) # {} /\ v \in Overlapped(w) \cup {w}
                         THEN [loc[v] EXCEPT !.torn = TRUE]
                         ELSE loc[v]]
       ELSE \E o \in applyDelays(req[w].hdr, environ) \cup
                        (IF loc[w].torn
                         THEN {DelayPanic(o.family) :
                                  o \in applyDelays(req[w].hdr, environ)}
                         ELSE {}) :
               /\ loc' = [loc EXCEPT
                            ![w].directive = Consulted(DelayHeaders,
                                                DelaysConsulted(o.family),
                                                req[w].hdr),
                            ![w].family = o.family,
                            ![w].slept = o.ms]
               /\ pc' = [pc EXCEPT ![w] = IF o.panic THEN "panic" ELSE "testing"]
    /\ UNCHANGED <<req, resp, requestCounter, counterMutex, historyMutex,
                   requestHistory, scenarios, scenarioIndex, config, environ,
                   envHeaders, now, started, recorded, visits, raced, replaced>>

\* -------------------------------- processTestingFeatures, as a handler step
\* if processTestingFeatures(w, r, body) { return }; then processScenario
AfterTesting_fallThrough(handled) == "scn_load"

AfterTesting(handled) == IF handled THEN "done" ELSE "scn_load"

EchoTestingFeatures(w) ==
    /\ pc[w] = "testing"
    /\ \E o \in {[handled |-> x.handled, kind |-> x.kind, resp |-> x.resp] :
                   x \in processTestingFeatures(req[w].hdr, environ, req[w])} :
          /\ loc' = [loc EXCEPT
                       ![w].directive =
                           loc[w].directive @@
                           Consulted(TestingHeaders,
                                     TestingConsulted(req[w].hdr, environ, req[w]),
                                     req[w].hdr),
                       ![w].handledBy = o.kind,
                       ![w].errorSlept = IF o.kind = "error" /\ o.resp.status = 0
                                         THEN TimeoutSleepMs ELSE 0]
          /\ resp' = [resp EXCEPT ![w] = o.resp]
          /\ pc' = [pc EXCEPT ![w] = AfterTesting(o.handled)]
    /\ UNCHANGED <<req, requestCounter, counterMutex, historyMutex,
                   requestHistory, scenarios, scenarioIndex, config, environ,
                   envHeaders, now, started, recorded, visits, raced, replaced>>

\* --------------------------------------------------------- processScenario
\* scenario, ok := scenarios.Load(r.URL.Path)
ScenarioLoad(w) ==
    /\ pc[w] = "scn_load"
    /\ IF req[w].path \in DOMAIN scenarios
       THEN /\ loc' = [loc EXCEPT ![w].responses = scenarios[req[w].path]]
            /\ pc' = [pc EXCEPT ![w] = "scn_idx"]
       ELSE /\ loc' = loc
            /\ pc' = [pc EXCEPT ![w] = "render"]
    /\ UNCHANGED <<req, resp, requestCounter, counterMutex, historyMutex,
                   requestHistory, scenarios, scenarioIndex, config, environ,
                   envHeaders, now, started, recorded, visits, raced, replaced>>

\* sync.Map LoadOrStore
MapLoadOrStore(m, key, value) == IF key \in DOMAIN m THEN m ELSE MapStore(m, key, value)

\* index := idx.(int) % len(responses)
CursorIndex(idx, n) == idx % n

\* idx, _ := scenarioIndex.LoadOrStore(path, 0); index := idx % len(responses);
\* resp := responses[index]  (integer division by zero panics)
ScenarioLoadIndex(w) ==
    /\ pc[w] = "scn_idx"
    /\ scenarioIndex' = MapLoadOrStore(scenarioIndex, req[w].path, 0)
    /\ visits' = [visits EXCEPT ![req[w].path] = @ + 1]
    /\ IF Len(loc[w].responses) = 0
       THEN /\ loc' = [loc EXCEPT ![w].idx = scenarioIndex'[req[w].path],
                                  ![w].k = visits[req[w].path]]
            /\ pc' = [pc EXCEPT ![w] = "panic"]
       ELSE LET idx == scenarioIndex'[req[w].path]
                index == CursorIndex(idx, Len(loc[w].responses))
            IN  IF index + 1 \in DOMAIN loc[w].responses
                THEN /\ loc' = [loc EXCEPT ![w].idx = idx,
                                           ![w].index = index,
                                           ![w].picked = <<loc[w].responses[index + 1]>>,
                                           ![w].k = visits[req[w].path]]
                     /\ pc' = [pc EXCEPT ![w] = "scn_store"]
                ELSE /\ loc' = [loc EXCEPT ![w].idx = idx, ![w].index = index,
                                           ![w].k = visits[req[w].path]]
                     /\ pc' = [pc EXCEPT ![w] = "panic"]
    /\ UNCHANGED <<req, resp, requestCounter, counterMutex, historyMutex,
                   requestHistory, scenarios, config, environ, envHeaders, now,
                   started, recorded, raced, replaced>>

\* the value stored back: index+1
NextCursor_skip(index) == index + 2

NextCursor_stay(index) == index

NextCursor(index) == index + 1

\* scenarioIndex.Store(r.URL.Path, index+1)
ScenarioStoreIndex(w) ==
    /\ pc[w] = "scn_store"
    /\ LET value == NextCursor(loc[w].index)
       IN  /\ scenarioIndex' = MapStore(scenarioIndex, req[w].path, value)
           /\ loc' = [loc EXCEPT ![w].stored = value]
    /\ pc' = [pc EXCEPT ![w] = "scn_write"]
    /\ UNCHANGED <<req, resp, requestCounter, counterMutex, historyMutex,
                   requestHistory, scenarios, config, environ, envHeaders, now,
                   started, recorded, visits, raced, replaced>>

\* the scenario response: delay, headers, status, body
ScenarioResponse(r, picked) ==
    [NoResponse EXCEPT
       !.scenario = TRUE,
       !.contentType = "application/json",
       !.status = picked.Status,
       !.body = IF picked.Body # "" THEN picked.Body ELSE echoRequestInfo(r)]

ScenarioRespond(w) ==
    /\ pc[w] = "scn_write"
    /\ \E d \in scenarioDelay(loc[w].picked[1].Delay) :
          loc' = [loc EXCEPT ![w].scenarioSlept = d.ms]
    /\ resp' = [resp EXCEPT ![w] = ScenarioResponse(req[w], loc[w].picked[1])]
    /\ pc' = [pc EXCEPT ![w] = "done"]
    /\ UNCHANGED <<req, requestCounter, counterMutex, historyMutex,
                   requestHistory, scenarios, scenarioIndex, config, environ,
                   envHeaders, now, started, recorded, visits, raced, replaced>>

\* ------------------------------------------- echoHandler, the normal echo
EchoRender(w) ==
    /\ pc[w] = "render"
    /\ resp' = [resp EXCEPT ![w] = RenderEcho(req[w], loc[w].currentCount, envHeaders)]
    /\ pc' = [pc EXCEPT ![w] = "done"]
    /\ UNCHANGED <<req, loc, requestCounter, counterMutex, historyMutex,
                   requestHistory, scenarios, scenarioIndex, config, environ,
                   envHeaders, now, started, recorded, visits, raced, replaced>>

\* --------------------------------------------------- scenarioHandler (POST)
\* json decode: 400 on a payload that does not decode, else start the loop
\* json.NewDecoder(r.Body).Decode(&scenariosData) returns an error; the
\* payload of such a request is what the decoder had filled in before it
DecodeError_never(r) == FALSE

DecodeError(r) == r.badJSON

ScenarioDecode(w) ==
    /\ pc[w] = "post"
    /\ IF DecodeError(req[w])
       THEN /\ resp' = [resp EXCEPT ![w] = PlainText(400, "Invalid scenario data")]
            /\ pc' = [pc EXCEPT ![w] = "done"]
            /\ loc' = loc
       ELSE IF req[w].payload = <<>>
       THEN /\ resp' = [resp EXCEPT ![w] = [NoResponse EXCEPT !.status = 200,
                                               !.body = "scenarios updated"]]
            /\ pc' = [pc EXCEPT ![w] = "done"]
            /\ loc' = loc
       ELSE /\ resp' = resp
            /\ pc' = [pc EXCEPT ![w] = "post_def"]
            /\ loc' = [loc EXCEPT ![w].i = 1]
    /\ UNCHANGED <<req, requestCounter, counterMutex, historyMutex,
                   requestHistory, scenarios, scenarioIndex, config, environ,
                   envHeaders, now, started, recorded, visits, raced, replaced>>

\* scenarios.Store(s.Path, s.Responses)
ScenarioStoreDef(w) ==
    /\ pc[w] = "post_def"
    /\ LET s == req[w].payload[loc[w].i]
       IN  /\ scenarios' = MapStore(scenarios, s.Path, s.Responses)
           /\ replaced' = [replaced EXCEPT ![s.Path].len =
                              IF s.Path \in DOMAIN scenarios
                              THEN Len(scenarios[s.Path]) ELSE 0 - 1]
    /\ pc' = [pc EXCEPT ![w] = "post_idx"]
    /\ UNCHANGED <<req, loc, resp, requestCounter, counterMutex, historyMutex,
                   requestHistory, scenarioIndex, config, environ, envHeaders,
                   now, started, recorded, visits, raced>>

\* the cursor written at installation
InstallCursor_keep(index, path) == IF path \in DOMAIN index THEN index[path] ELSE 0

InstallCursor(index, path) == 0

\* scenarioIndex.Store(s.Path, 0); next scenario of the payload, or 200
ScenarioStoreIdx(w) ==
    /\ pc[w] = "post_idx"
    /\ LET s == req[w].payload[loc[w].i]
       IN  /\ scenarioIndex' = MapStore(scenarioIndex, s.Path,
                                        InstallCursor(scenarioIndex, s.Path))
           /\ visits' = [visits EXCEPT ![s.Path] = 0]
           /\ raced' = [raced EXCEPT ![s.Path] =
                          \E v \in Workers : /\ pc[v] \in {"scn_idx", "scn_store"}
                                              /\ req[v].path = s.Path]
           /\ replaced' = [replaced EXCEPT ![s.Path].cursor =
                              IF s.Path \in DOMAIN scenarioIndex
                              THEN scenarioIndex[s.Path] ELSE 0 - 1]
    /\ IF loc[w].i < Len(req[w].payload)
       THEN /\ loc' = [loc EXCEPT ![w].i = loc[w].i + 1]
            /\ pc' = [pc EXCEPT ![w] = "post_def"]
            /\ resp' = resp
       ELSE /\ loc' = loc
            /\ pc' = [pc EXCEPT ![w] = "done"]
            /\ resp' = [resp EXCEPT ![w] = [NoResponse EXCEPT !.status = 200,
                                               !.body = "scenarios updated"]]
    /\ UNCHANGED <<req, requestCounter, counterMutex, historyMutex,
                   requestHistory, scenarios, config, environ, envHeaders, now,
                   started, recorded>>

\* ---------------------------------------------------------- historyHandler
\* lock, encode requestHistory, unlock
\* historyMutex.Lock(); defer historyMutex.Unlock(): the encoding of
\* requestHistory runs with the lock held.  listedAt is a history variable:
\* the number of records appended so far when the listing was taken.
HistoryLockable_always(mutex) == TRUE

HistoryLockable(mutex) == mutex = 0

HistoryList(w) ==
    /\ pc[w] = "history"
    /\ HistoryLockable(historyMutex)
    /\ loc' = [loc EXCEPT ![w].listing = requestHistory,
                          ![w].listedAt = Len(recorded)]
    /\ resp' = [resp EXCEPT ![w] = [NoResponse EXCEPT !.status = 200,
                                       !.contentType = "application/json"]]
    /\ pc' = [pc EXCEPT ![w] = "done"]
    /\ UNCHANGED <<req, requestCounter, counterMutex, historyMutex,
                   requestHistory, scenarios, scenarioIndex, config, environ,
                   envHeaders, now, started, recorded, visits, raced, replaced>>

\* ----------------------------------------------------------- replayHandler
\* json.NewDecoder(r.Body).Decode(&req)
ReplayDecode(w) ==
    /\ pc[w] = "replay"
    /\ IF req[w].badJSON
       THEN /\ resp' = [resp EXCEPT ![w] = PlainText(400, "Invalid request body")]
            /\ pc' = [pc EXCEPT ![w] = "done"]
       ELSE /\ resp' = resp
            /\ pc' = [pc EXCEPT ![w] = "rp_lookup"]
    /\ UNCHANGED <<req, loc, requestCounter, counterMutex, historyMutex,
                   requestHistory, scenarios, scenarioIndex, config, environ,
                   envHeaders, now, started, recorded, visits, raced, replaced>>

\* the scan of lines 32-40: the first record of the history with the given id
Lookup_any(history, id) ==
    IF history = <<>> THEN [found |-> FALSE, record |-> <<>>]
    ELSE [found |-> TRUE, record |-> history[1]]

Lookup_newest(history, id) ==
    LET matches == {i \in 1..Len(history) : history[i].ID = id}
    IN  IF matches = {} THEN [found |-> FALSE, record |-> <<>>]
        ELSE [found |-> TRUE,
              record |-> history[CHOOSE i \in matches : \A j \in matches : i >= j]]

Lookup(history, id) ==
    LET matches == {i \in 1..Len(history) : history[i].ID = id}
    IN  IF matches = {} THEN [found |-> FALSE, record |-> <<>>]
        ELSE [found |-> TRUE,
              record |-> history[CHOOSE i \in matches : \A j \in matches : i <= j]]

\* historyMutex.Lock() ahead of the scan
ReplayLock(w) ==
    /\ pc[w] = "rp_lookup"
    /\ historyMutex = 0
    /\ historyMutex' = w
    /\ pc' = [pc EXCEPT ![w] = "rp_scan"]
    /\ UNCHANGED <<req, loc, resp, requestCounter, counterMutex, requestHistory,
                   scenarios, scenarioIndex, config, environ, envHeaders, now,
                   started, recorded, visits, raced, replaced>>

\* historyMutex.Unlock() after the scan, ahead of the 404 and of the
\* outbound request
ScanUnlock_deferred(w) == w

ScanUnlock(w) == 0

\* scan requestHistory, unlock; 404 when the id is not found
ReplayLookup(w) ==
    /\ pc[w] = "rp_scan"
    /\ historyMutex' = ScanUnlock(w)
    /\ LET scan == Lookup(requestHistory, req[w].replayID)
       IN  IF ~scan.found
           THEN /\ resp' = [resp EXCEPT ![w] = PlainText(404, "Request ID not found")]
                /\ pc' = [pc EXCEPT ![w] = "done"]
                /\ loc' = loc
           ELSE /\ resp' = resp
                /\ pc' = [pc EXCEPT ![w] = "rp_send"]
                /\ loc' = [loc EXCEPT ![w].found = TRUE, ![w].record = scan.record]
    /\ UNCHANGED <<req, requestCounter, counterMutex,
                   requestHistory, scenarios, scenarioIndex, config, environ,
                   envHeaders, now, started, recorded, visits, raced, replaced>>

\* http.NewRequest(record.Method, targetURL, record.Body) with
\* httpReq.Header = record.Headers.Clone(), as the server receives it
NewRequest(record) ==
    [BaseRequest EXCEPT
       !.method = record.Method, !.path = record.URL, !.body = record.Body,
       !.id = record.ID, !.hdr = record.Headers.hdr,
       !.setHeaders = record.Headers.setHeaders,
       !.responseSize = record.Headers.responseSize,
       !.compress = record.Headers.compress,
       !.contentType = record.Headers.contentType,
       !.xContentType = record.Headers.xContentType,
       !.acceptEncoding = record.Headers.acceptEncoding]

\* client.Do with no target: the request goes to scheme://r.Host + record.URL,
\* where a free worker of this server accepts it
ReplaySendSelf(w) ==
    /\ pc[w] = "rp_send"
    /\ req[w].target = ""
    /\ \E v \in Workers :
          /\ pc[v] = "idle"
          /\ req' = [req EXCEPT ![v] = NewRequest(loc[w].record)]
          /\ pc' = [pc EXCEPT ![w] = "rp_wait", ![v] = "mw_id"]
          /\ loc' = [loc EXCEPT ![w].upstream = v,
                                 ![w].httpReq = <<NewRequest(loc[w].record)>>,
                                 ![w].attempts = @ + 1,
                                 ![w].before = [counter |-> requestCounter,
                                                recorded |-> Len(recorded),
                                                index |-> scenarioIndex]]
    /\ started' = started + 1
    /\ UNCHANGED <<resp, requestCounter, counterMutex, historyMutex,
                   requestHistory, scenarios, scenarioIndex, config, environ,
                   envHeaders, now, recorded, visits, raced, replaced>>

\* what an external target may answer
TargetResponses ==
    {[NoResponse EXCEPT !.status = 200, !.contentType = "text/plain", !.body = "upstream"],
     [NoResponse EXCEPT !.status = 502, !.contentType = "text/html", !.body = ""],
     [NoResponse EXCEPT !.status = 429, !.contentType = "text/plain",
                        !.body = "slow down", !.retryAfter = "60"],
     [NoResponse EXCEPT !.status = 200, !.contentType = "application/json",
                        !.body = "gzip(upstream)", !.encoding = "gzip"]}

\* the response as the replay's HTTP client hands it over: a gzip-encoded body
\* is decoded by the transport unless the request named its own Accept-Encoding
ClientResponse(request, r) ==
    LET decode == r.encoding = "gzip" /\ request.acceptEncoding = ""
    IN  [r EXCEPT !.status = IF r.status = 0 THEN 200 ELSE r.status,
                  !.body = IF decode THEN "gunzip(" \o r.body \o ")" ELSE r.body,
                  !.encoding = IF decode THEN "" ELSE r.encoding]

\* lines 82-84: status, Content-Type and body of the upstream response
Forward_status200(cr) ==
    [NoResponse EXCEPT !.status = 200, !.contentType = cr.contentType,
                       !.body = cr.body]

Forward_verbatim(cr) == cr

Forward(cr) ==
    [NoResponse EXCEPT !.status = cr.status, !.contentType = cr.contentType,
                       !.body = cr.body]

ReplayFailed == PlainText(500, "Replay failed")

\* http.NewRequest fails on a target that url.Parse rejects (a target that
\* starts with a colon has no protocol scheme)
BadURL == ":bad"

NewRequestError_never(targetURL) == FALSE

NewRequestError(targetURL) == targetURL = BadURL

CreateFailed == PlainText(500, "Failed to create request")

\* client.Do with a target: the outbound call fails or returns the target's response
ReplaySendTarget(w) ==
    /\ pc[w] = "rp_send"
    /\ req[w].target # ""
    /\ IF NewRequestError(req[w].target)
       THEN /\ loc' = loc
            /\ resp' = [resp EXCEPT ![w] = CreateFailed]
       ELSE \/ /\ loc' = [loc EXCEPT ![w].clientErr = TRUE,
                                      ![w].httpReq = <<NewRequest(loc[w].record)>>,
                                      ![w].attempts = @ + 1]
               /\ resp' = [resp EXCEPT ![w] = ReplayFailed]
            \/ \E r \in TargetResponses :
                  /\ loc' = [loc EXCEPT ![w].clientResp = r,
                                         ![w].httpReq = <<NewRequest(loc[w].record)>>,
                                         ![w].attempts = @ + 1]
                  /\ resp' = [resp EXCEPT ![w] =
                                 Forward(ClientResponse(NewRequest(loc[w].record), r))]
    /\ pc' = [pc EXCEPT ![w] = "done"]
    /\ UNCHANGED <<req, requestCounter, counterMutex, historyMutex,
                   requestHistory, scenarios, scenarioIndex, config, environ,
                   envHeaders, now, started, recorded, visits, raced, replaced>>

\* the time the handler of a request has spent sleeping
Elapsed(l) == l.slept + l.errorSlept + l.scenarioSlept

\* client.Do fails when the handler aborted (the connection is closed without
\* a response) or when the 30 s client timeout expired first
ClientError(position, l) == position = "panic" \/ Elapsed(l) >= ClientTimeoutMs

\* client.Do returns, the body is read and the response is forwarded
ReplayReceive(w) ==
    /\ pc[w] = "rp_wait"
    /\ LET v == loc[w].upstream
       IN  /\ pc[v] \in Finished
           /\ IF ClientError(pc[v], loc[v])
              THEN /\ resp' = [resp EXCEPT ![w] = ReplayFailed, ![v] = NoResponse]
                   /\ loc' = [loc EXCEPT ![w].clientErr = TRUE,
                                          ![w].clientResp = resp[v],
                                          ![w].clientEnd = pc[v],
                                          ![w].clientWait = Elapsed(loc[v]),
                                          ![v] = NoLocals]
              ELSE /\ resp' = [resp EXCEPT ![w] = Forward(ClientResponse(req[v], resp[v])),
                                           ![v] = NoResponse]
                   /\ loc' = [loc EXCEPT ![w].clientResp = resp[v],
                                          ![w].clientEnd = pc[v],
                                          ![w].clientWait = Elapsed(loc[v]),
                                          ![v] = NoLocals]
           /\ pc' = [pc EXCEPT ![w] = "done", ![v] = "idle"]
           /\ req' = [req EXCEPT ![v] = BaseRequest]
    /\ UNCHANGED <<requestCounter, counterMutex, historyMutex,
                   requestHistory, scenarios, scenarioIndex, config, environ,
                   envHeaders, now, started, recorded, visits, raced, replaced>>

ReplaySteps(w) ==
    \/ ReplayDecode(w)
    \/ ReplayLock(w)
    \/ ReplayLookup(w)
    \/ ReplaySendSelf(w)
    \/ ReplaySendTarget(w)
    \/ ReplayReceive(w)

\* --------------------------------------------------------------- middleware
\* a worker accepts a request of the given set at the head of the middleware
\* chain of setupRoutes
Arrive(w, requests, sequential) ==
    /\ pc[w] = "idle"
    /\ started < MaxRequests
    /\ Alone(w, sequential)
    /\ \E r \in requests :
          /\ req' = [req EXCEPT ![w] = r]
          /\ pc' = [pc EXCEPT ![w] = "mw_id"]
    /\ started' = started + 1
    /\ UNCHANGED <<loc, resp, requestCounter, counterMutex, historyMutex,
                   requestHistory, scenarios, scenarioIndex, config, environ,
                   envHeaders, now, recorded, visits, raced, replaced>>

\* generateRequestID: eight random bytes in hexadecimal
Tokens == {"g1", "g2"}

\* the id the middleware settles on
RequestID_fresh(supplied, token) == token

RequestID(supplied, token) == IF supplied = "" THEN token ELSE supplied

\* the handler after requestIDMiddleware: rateLimitMiddleware when a limiter
\* is configured, else the route's handler
AfterRequestID(r) == IF config.RateLimitRPS > 0 THEN "mw_rate" ELSE r.kind

\* requestIDMiddleware: the id is written to the request header when it was
\* absent, and to the response header always
RequestIDMiddleware(w) ==
    /\ pc[w] = "mw_id"
    /\ \E token \in Tokens :
          LET requestID == RequestID(req[w].id, token)
          IN  /\ req' = [req EXCEPT ![w].id = requestID]
              /\ loc' = [loc EXCEPT ![w].supplied = req[w].id,
                                     ![w].requestID = requestID]
    /\ pc' = [pc EXCEPT ![w] = AfterRequestID(req[w])]
    /\ UNCHANGED <<resp, requestCounter, counterMutex, historyMutex,
                   requestHistory, scenarios, scenarioIndex, config, environ,
                   envHeaders, now, started, recorded, visits, raced, replaced>>

\* the response of a rejected request: Retry-After is set before http.Error
RateLimitExceeded_late == PlainText(429, "Rate limit exceeded")

RateLimitExceeded ==
    [PlainText(429, "Rate limit exceeded") EXCEPT !.retryAfter = "60"]

\* rateLimitMiddleware: /sse is never limited; otherwise rateLimiter.Allow()
\* decides, and a rejected request ends here
RateLimitMiddleware(w) ==
    /\ pc[w] = "mw_rate"
    /\ IF req[w].path = "/sse"
       THEN /\ pc' = [pc EXCEPT ![w] = req[w].kind]
            /\ UNCHANGED <<loc, resp>>
       ELSE \E allow \in BOOLEAN :
               IF allow
               THEN /\ pc' = [pc EXCEPT ![w] = req[w].kind]
                    /\ UNCHANGED <<loc, resp>>
               ELSE /\ pc' = [pc EXCEPT ![w] = "done"]
                    /\ loc' = [loc EXCEPT ![w].limited = TRUE]
                    /\ resp' = [resp EXCEPT ![w] = RateLimitExceeded]
    /\ UNCHANGED <<req, requestCounter, counterMutex, historyMutex,
                   requestHistory, scenarios, scenarioIndex, config, environ,
                   envHeaders, now, started, recorded, visits, raced, replaced>>

\* sseHandler, as far as the core sees it: an event stream that ends
SseHandler(w) ==
    /\ pc[w] = "sse"
    /\ resp' = [resp EXCEPT ![w] = [NoResponse EXCEPT
                                       !.status = 200,
                                       !.contentType = "text/event-stream"]]
    /\ pc' = [pc EXCEPT ![w] = "done"]
    /\ UNCHANGED <<req, loc, requestCounter, counterMutex, historyMutex,
                   requestHistory, scenarios, scenarioIndex, config, environ,
                   envHeaders, now, started, recorded, visits, raced, replaced>>

MiddlewareSteps(w) ==
    \/ RequestIDMiddleware(w)
    \/ RateLimitMiddleware(w)
    \/ SseHandler(w)

\* the steps of echoHandler outside recordRequest and processScenario
EchoSteps(w) ==
    \/ EchoLockCounter(w)
    \/ EchoIncrement(w)
    \/ EchoReadBody(w)
    \/ EchoApplyDelays(w)
    \/ EchoTestingFeatures(w)
    \/ ScenarioLoad(w)
    \/ EchoRender(w)
    \/ Finish(w)

RecordSteps(w) ==
    \/ RecordLock(w)
    \/ RecordAppend(w)
    \/ RecordEvict(w)

ScenarioSteps(w) ==
    \/ ScenarioLoadIndex(w)
    \/ ScenarioStoreIndex(w)
    \/ ScenarioRespond(w)

PostSteps(w) ==
    \/ ScenarioDecode(w)
    \/ ScenarioStoreDef(w)
    \/ ScenarioStoreIdx(w)

\* ------------------------------------------------------------------ inputs
Response(status, delay, body) == [Status |-> status, Delay |-> delay, Body |-> body]
Scenario(path, responses) == [Path |-> path, Responses |-> responses]

\* directive values, as character sequences
DELAY1 == <<"5", "m", "s">>
DELAY2 == <<"2", "-", "3", "m", "s">>

Def1 == <<Response(500, <<>>, "n1")>>
Def2 == <<Response(201, <<>>, "one"), Response(202, DELAY1, "two")>>
Def3 == <<Response(200, <<>>, "r1"), Response(503, DELAY2, ""), Response(204, <<>>, "r3")>>

Post(payload) ==
    [BaseRequest EXCEPT !.kind = "post", !.path = "/scenario", !.method = "POST",
                        !.payload = payload]

HistoryRequests ==
    {[BaseRequest EXCEPT !.kind = "history", !.path = "/history"]}

WithHeader(header, value) == [NoHeaders EXCEPT ![header] = value]

\* ---------------------------------------- the scenario engine, concurrently
ScenarioEchoRequests == {[BaseRequest EXCEPT !.path = p] : p \in Paths}

ScenarioPostRequests ==
    {Post(<<Scenario("/a", Def2)>>),
     Post(<<Scenario("/a", Def1), Scenario("/b", Def2)>>)}

InitScenario == InitWith({0}, {NoEnviron}, {<<>>})

NextScenario ==
    \E w \in Workers :
        \/ Accept(w, ScenarioEchoRequests, FALSE)
        \/ Accept(w, ScenarioPostRequests, FALSE)
        \/ EchoSteps(w)
        \/ ScenarioSteps(w)
        \/ PostSteps(w)

SpecScenario == InitScenario /\ [][NextScenario]_vars

\* ------------------------------------------- the history store, concurrently
HistoryEchoRequests ==
    {[BaseRequest EXCEPT !.id = "id1"]}

InitHistory == InitWith(0..MaxHistory, {NoEnviron}, {<<>>})

NextHistory ==
    \E w \in Workers :
        \/ Accept(w, HistoryEchoRequests, FALSE)
        \/ Accept(w, HistoryRequests, FALSE)
        \/ EchoSteps(w)
        \/ RecordSteps(w)
        \/ HistoryList(w)

SpecHistory == InitHistory /\ [][NextHistory]_vars

\* ------------------------------------------ directives, one request at a time
\* the value a request header carries for a control, and the value the
\* control's environment variable carries when it is set
HeaderValue(header) ==
    CASE header = "X-Echo-Delay" -> <<"5", "m", "s">>
      [] header = "X-Echo-Jitter" -> <<"5", ",", "2">>
      [] header = "X-Echo-Random-Delay" -> <<"2", ",", "3">>
      [] header = "X-Echo-Exponential" -> <<"8", ",", "1">>
      [] header = "X-Echo-Latency" -> <<"3", "m", "s">>
      [] header = "X-Echo-Status" -> <<"2", "0", "1">>
      [] header = "X-Echo-Error" -> <<"U", "n", "a", "v", "a", "i", "l", "a", "b", "l", "e">>
      [] header = "X-Echo-Chaos" -> <<"1", "0", "0">>

DefaultValue(header) ==
    CASE header = "X-Echo-Delay" -> <<"9">>
      [] header = "X-Echo-Jitter" -> <<"7", ",", "1">>
      [] header = "X-Echo-Random-Delay" -> <<"4", ",", "6">>
      [] header = "X-Echo-Exponential" -> <<"4", ",", "3">>
      [] header = "X-Echo-Latency" -> <<"1", "-", "2", "m", "s">>
      [] header = "X-Echo-Status" -> <<"5", "0", "0">>
      [] header = "X-Echo-Error" -> <<"4", "2", "9">>
      [] header = "X-Echo-Chaos" -> <<"5", "0">>

\* environments: nothing set, or one control variable set
Environs ==
    {NoEnviron} \cup
    {[NoEnviron EXCEPT ![EnvOf(h)] = DefaultValue(h)] : h \in ControlHeaders}

\* ECHO_HEADER_X_Version, as in the README
EnvHeaderLists == {<<>>, <<[name |-> <<"X", "_", "V", "e", "r", "s", "i", "o", "n">>,
                            value |-> "env"]>>}

\* X-Echo-Set-Header-X-Version and X-Echo-Set-Header-X-Other, as sent
SetHeaderLists ==
    {<<[suffix |-> <<"x", "-", "v", "e", "r", "s", "i", "o", "n">>, value |-> "req"]>>,
     <<[suffix |-> <<"X", "-", "O", "t", "h", "e", "r">>, value |-> "req"]>>}

DirectiveRequests ==
    {BaseRequest}
    \cup {[BaseRequest EXCEPT !.hdr = WithHeader(h, HeaderValue(h))] : h \in ControlHeaders}
    \cup {[BaseRequest EXCEPT !.setHeaders = l] : l \in SetHeaderLists}
    \cup {[BaseRequest EXCEPT !.method = "POST", !.body = "hello", !.bodyErr = TRUE]}

InitDirective == InitWith({0}, Environs, EnvHeaderLists)

NextDirective ==
    \E w \in Workers :
        \/ Accept(w, DirectiveRequests, TRUE)
        \/ EchoSteps(w)

SpecDirective == InitDirective /\ [][NextDirective]_vars

\* ------------------------------------ the scenario engine, one request at a time
SeqEchoRequests == {[BaseRequest EXCEPT !.path = p] : p \in Paths}

SeqPostRequests ==
    {Post(<<Scenario("/a", Def2)>>), Post(<<Scenario("/a", Def3)>>),
     Post(<<Scenario("/a", Def1), Scenario("/b", Def2)>>),
     Post(<<Scenario("/b", <<>>)>>), Post(<<>>),
     [BaseRequest EXCEPT !.kind = "post", !.path = "/scenario",
                         !.method = "POST", !.badJSON = TRUE],
     [Post(<<Scenario("/a", Def1)>>) EXCEPT !.badJSON = TRUE]}

InitSeq == InitWith({0}, {NoEnviron}, {<<>>})

NextSeq ==
    \E w \in Workers :
        \/ Accept(w, SeqEchoRequests, TRUE)
        \/ Accept(w, SeqPostRequests, TRUE)
        \/ EchoSteps(w)
        \/ ScenarioSteps(w)
        \/ PostSteps(w)

SpecSeq == InitSeq /\ [][NextSeq]_vars

\* --------------------------------- the whole pipeline with history, sequentially
PipelineEchoRequests ==
    {BaseRequest,
     [BaseRequest EXCEPT !.id = "id2", !.method = "POST", !.body = "hello"],
     [BaseRequest EXCEPT !.method = "POST", !.body = "hello", !.bodyErr = TRUE],
     [BaseRequest EXCEPT !.hdr = WithHeader("X-Echo-Status", HeaderValue("X-Echo-Status"))],
     [BaseRequest EXCEPT !.hdr = WithHeader("X-Echo-Error", HeaderValue("X-Echo-Error"))],
     [BaseRequest EXCEPT !.hdr = WithHeader("X-Echo-Chaos", HeaderValue("X-Echo-Chaos"))],
     [BaseRequest EXCEPT !.hdr = WithHeader("X-Echo-Jitter", <<"5", ",", "0">>)]}

PipelinePostRequests == {Post(<<Scenario("/a", Def2)>>)}

InitPipeline == InitWith(0..1, {NoEnviron}, {<<>>})

NextPipeline ==
    \E w \in Workers :
        \/ Accept(w, PipelineEchoRequests, TRUE)
        \/ Accept(w, PipelinePostRequests, TRUE)
        \/ Accept(w, HistoryRequests, TRUE)
        \/ EchoSteps(w)
        \/ RecordSteps(w)
        \/ ScenarioSteps(w)
        \/ PostSteps(w)
        \/ HistoryList(w)

SpecPipeline == InitPipeline /\ [][NextPipeline]_vars

\* ------------------------------------- delay directives, one request at a time
\* a request carrying the five delay directives (empty: header not sent)
DelayRequest(delay, jitter, random, exponential, latency) ==
    [BaseRequest EXCEPT !.hdr = [NoHeaders EXCEPT
        !["X-Echo-Delay"] = delay, !["X-Echo-Jitter"] = jitter,
        !["X-Echo-Random-Delay"] = random, !["X-Echo-Exponential"] = exponential,
        !["X-Echo-Latency"] = latency]]

\* well-formed, ill-formed and boundary values of every family, alone and
\* combined with the families of lower priority
DelayRequests ==
    {DelayRequest(<<>>, <<>>, <<>>, <<>>, <<>>),
     DelayRequest(<<"5", "m", "s">>, <<"5", ",", "2">>, <<"2", ",", "3">>, <<"8", ",", "1">>, <<"3", "m", "s">>),
     DelayRequest(<<"0">>, <<"5", ",", "2">>, <<>>, <<>>, <<>>),
     DelayRequest(<<"a", "b", "c">>, <<"5", ",", "-", "1">>, <<"2", ",", "3">>, <<>>, <<>>),
     DelayRequest(<<>>, <<"5">>, <<"3", ",", "2">>, <<"8", ",", "1">>, <<>>),
     DelayRequest(<<>>, <<>>, <<>>, <<"0", ",", "1">>, <<"1", "-", "2", "m", "s">>),
     DelayRequest(<<>>, <<>>, <<>>, <<>>, <<"a", "b", "c">>),
     DelayRequest(<<>>, <<"5", ",", "0">>, <<>>, <<>>, <<>>),
     DelayRequest(<<>>, <<>>, <<>>, <<"1", ",", "1">>, <<>>),
     DelayRequest(<<>>, <<>>, <<"3", "0", "0", "0", "0", "1", ",", "3", "0", "0", "0", "0", "2">>, <<>>, <<>>),
     DelayRequest(<<>>, <<"1", ",", "2">>, <<>>, <<>>, <<>>),
     DelayRequest(<<>>, <<"3", "0", "0", "0", "0", "0", ",", "2">>, <<>>, <<>>, <<>>),
     DelayRequest(<<>>, <<>>, <<>>, <<>>, <<"x", "-", "y">>),
     DelayRequest(<<"-", "5">>, <<>>, <<>>, <<>>, <<"3", "m", "s">>),
     DelayRequest(<<"3", "0", "0", "0", "0", "1", "m", "s">>, <<"5", ",", "2">>, <<>>, <<>>, <<>>)}

InitDelay == InitWith({0}, {NoEnviron}, {<<>>})

NextDelay ==
    \E w \in Workers :
        \/ Accept(w, DelayRequests, TRUE)
        \/ EchoSteps(w)

SpecDelay == InitDelay /\ [][NextDelay]_vars

\* ------------------------------------------ delay directives at the ceiling
\* the first request carries a directive whose range reaches the 300000 ms
\* ceiling; the exponential one also forces a status so that it ends at the
\* error injector
CeilingRequests ==
    {[DelayRequest(<<>>, <<>>, <<>>, <<"3", "0", "0", "0", "0", "0", ",", "1">>, <<>>) EXCEPT
         !.hdr["X-Echo-Status"] = HeaderValue("X-Echo-Status")],
     DelayRequest(<<>>, <<>>, <<"2", "9", "9", "9", "9", "9", ",", "3", "0", "0", "0", "0", "1">>, <<>>, <<>>),
     DelayRequest(<<>>, <<>>, <<>>, <<>>, <<"3", "0", "0", "0", "0", "0", "-", "3", "0", "0", "0", "0", "1", "m", "s">>),
     DelayRequest(<<>>, <<>>, <<>>, <<>>, <<"4", "0", "0", "0", "0", "0", "m", "s">>)}

InitCeiling == InitWith({0}, {NoEnviron}, {<<>>})

NextCeiling ==
    \E w \in Workers :
        \/ Accept(w, IF started = 0 THEN CeilingRequests ELSE {BaseRequest}, TRUE)
        \/ EchoSteps(w)

SpecCeiling == InitCeiling /\ [][NextCeiling]_vars

\* ------------------------------------- draws from the rng, concurrently
\* requests whose delay directive draws from the rng (jitter, random range,
\* latency range) and one that sleeps a fixed time without drawing
RngRequests ==
    {DelayRequest(<<>>, <<"5", ",", "1">>, <<>>, <<>>, <<>>),
     DelayRequest(<<>>, <<>>, <<"2", ",", "3">>, <<>>, <<>>),
     DelayRequest(<<>>, <<>>, <<>>, <<>>, <<"1", "-", "2", "m", "s">>),
     DelayRequest(<<"5", "m", "s">>, <<>>, <<>>, <<>>, <<>>)}

InitRng == InitWith({0}, {NoEnviron}, {<<>>})

\* two requests in flight are enough for two draws to overlap
NextRng ==
    \E w \in Workers :
        \/ Accept(w, IF started < 2 THEN RngRequests ELSE {}, FALSE)
        \/ EchoSteps(w)

SpecRng == InitRng /\ [][NextRng]_vars

\* C29: draws from the process-wide rng are mutually exclusive: no two
\* workers are inside a draw at the same time.
C29_DrawsExclusive ==
    \A w \in Workers : \A v \in Workers \ {w} : ~(Drawing(w) /\ Drawing(v))

\* the buffer after n complete append-and-evict steps at capacity k
Snapshot(n, k) == SubSeq(recorded, IF n > k THEN n - k + 1 ELSE 1, n)

Listed(w) == pc[w] = "done" /\ req[w].kind = "history"

\* C30: a GET /history listing is a consistent snapshot in recording order,
\* oldest first: under every interleaving with concurrent recorders it equals
\* the buffer as it stood after a whole number of append-and-evict steps (the
\* ones completed when the listing was taken), never a buffer in the middle
\* of a step, and its records are in the order in which the recorders
\* acquired the history lock.
C30_ConsistentListing ==
    \A w \in Workers :
        Listed(w) =>
            /\ loc[w].listedAt <= Len(recorded)
            /\ loc[w].listing = Snapshot(loc[w].listedAt, config.HistorySize)
            /\ \A i \in 1..(Len(loc[w].listing) - 1) :
                  loc[w].listing[i].Timestamp < loc[w].listing[i + 1].Timestamp

\* a listing of a full buffer taken after evictions, while another worker is
\* recording: it waits for the lock, or has appended since the listing
C30_Witness ==
    \E w \in Workers :
        /\ Listed(w)
        /\ config.HistorySize > 0
        /\ loc[w].listedAt > config.HistorySize
        /\ Len(loc[w].listing) = config.HistorySize
        /\ \E v \in Workers \ {w} : pc[v] \in {"rec_lock", "rec_append", "rec_evict"}

\* ------------------------------------------ the request counter, concurrently
CounterRequests == {BaseRequest, [BaseRequest EXCEPT !.method = "POST", !.body = "hello"]}

InitCounter == InitWith({0}, {NoEnviron}, {<<>>})

NextCounter ==
    \E w \in Workers :
        \/ Accept(w, CounterRequests, FALSE)
        \/ EchoSteps(w)

SpecCounter == InitCounter /\ [][NextCounter]_vars

\* ------------------------------------------------- replay, one at a time
ReplayEcho(id, method, body, hdr, compress, acceptEncoding) ==
    [BaseRequest EXCEPT !.id = id, !.method = method, !.body = body, !.hdr = hdr,
                        !.compress = compress, !.acceptEncoding = acceptEncoding,
                        !.contentType = IF body = "" THEN "" ELSE "application/json"]

ReplayEchoRequests ==
    {ReplayEcho("id1", "POST", "hello", NoHeaders, <<>>, ""),
     ReplayEcho("id1", "GET", "", NoHeaders, <<>>, ""),
     ReplayEcho("id2", "POST", "hello", WithHeader("X-Echo-Status", <<"5", "0", "3">>), <<>>, ""),
     ReplayEcho("id2", "GET", "", WithHeader("X-Echo-Error", Kw_timeout), <<>>, ""),
     ReplayEcho("id2", "GET", "", WithHeader("X-Echo-Error", Kw_rate_limit), <<>>, ""),
     ReplayEcho("id2", "GET", "", WithHeader("X-Echo-Delay", DELAY1), <<>>, ""),
     ReplayEcho("id2", "GET", "", WithHeader("X-Echo-Delay", <<"4", "0", "0", "0", "0">>), <<>>, ""),
     ReplayEcho("id2", "GET", "", WithHeader("X-Echo-Jitter", <<"5", ",", "0">>), <<>>, ""),
     ReplayEcho("id3", "POST", "hello", NoHeaders, Kw_gzip, ""),
     ReplayEcho("id3", "POST", "hello", NoHeaders, Kw_gzip, "gzip")}

ReplayPostRequests == {Post(<<Scenario("/a", Def2)>>)}

Replay(id, target, badJSON) ==
    [BaseRequest EXCEPT !.kind = "replay", !.path = "/replay", !.method = "POST",
                        !.replayID = id, !.target = target, !.badJSON = badJSON]

ReplayRequests ==
    {Replay("id1", "", FALSE), Replay("id2", "", FALSE), Replay("id3", "", FALSE),
     Replay("id4", "", FALSE), Replay("id1", "http://target", FALSE),
     Replay("id3", "http://target", FALSE), Replay("id1", BadURL, FALSE),
     Replay("", "", TRUE)}

InitReplay == InitWith({MaxHistory}, {NoEnviron}, {<<>>})

\* Connections are served one at a time, so which worker takes a client's
\* request is immaterial: the first one does, and the re-issued request of a
\* replay goes to any other. Requests are recorded first and replayed after.
NextReplay ==
    \/ Accept(1, IF started = 0 THEN ReplayPostRequests ELSE {}, TRUE)
    \/ Accept(1, IF started <= 1 THEN ReplayEchoRequests ELSE {}, TRUE)
    \/ Accept(1, IF started >= 1 THEN ReplayRequests ELSE {}, TRUE)
    \/ \E w \in Workers :
        \/ EchoSteps(w)
        \/ RecordSteps(w)
        \/ ScenarioSteps(w)
        \/ PostSteps(w)
        \/ ReplaySteps(w)
        \/ RequestIDMiddleware(w)

SpecReplay == InitReplay /\ [][NextReplay]_vars

\* ------------------------------------------ the middleware, one at a time
MiddlewareEchoRequests ==
    {[BaseRequest EXCEPT !.id = ""],
     [BaseRequest EXCEPT !.id = "id1"],
     [BaseRequest EXCEPT !.id = "id1", !.method = "POST", !.body = "hello"],
     [BaseRequest EXCEPT !.id = "", !.kind = "sse", !.path = "/sse"]}

MiddlewarePostRequests == {[Post(<<Scenario("/a", Def2)>>) EXCEPT !.id = ""]}

MiddlewareReplayRequests ==
    {[Replay(id, "", FALSE) EXCEPT !.id = ""] : id \in {"id1", "g1", "g2"}}

InitMiddleware ==
    InitState({[HistorySize |-> MaxHistory, RateLimitRPS |-> rps] : rps \in {0, 1}},
              {NoEnviron}, {<<>>})

NextMiddleware ==
    \/ Arrive(1, IF started = 0 THEN MiddlewarePostRequests ELSE {}, TRUE)
    \/ Arrive(1, IF started <= 2 THEN MiddlewareEchoRequests ELSE {}, TRUE)
    \/ Arrive(1, IF started >= 1 THEN MiddlewareReplayRequests ELSE {}, TRUE)
    \/ \E w \in Workers :
        \/ MiddlewareSteps(w)
        \/ EchoSteps(w)
        \/ RecordSteps(w)
        \/ ScenarioSteps(w)
        \/ PostSteps(w)
        \/ ReplayDecode(w)
        \/ ReplayLock(w)
        \/ ReplayLookup(w)
        \/ ReplaySendSelf(w)
        \/ ReplayReceive(w)

SpecMiddleware == InitMiddleware /\ [][NextMiddleware]_vars

\* ------------------------------------ the error injector, one request at a time
\* a request carrying the status, error and chaos directives (empty: not sent)
InjectorRequest(status, error, chaos) ==
    [BaseRequest EXCEPT !.hdr = [NoHeaders EXCEPT
        !["X-Echo-Status"] = status, !["X-Echo-Error"] = error,
        !["X-Echo-Chaos"] = chaos]]

\* every status class, every error keyword in some letter case, every kind
\* of chaos rate, alone and combined
InjectorRequests ==
    {InjectorRequest(<<>>, <<>>, <<>>),
     InjectorRequest(<<"2", "0", "1">>, <<>>, <<>>),
     InjectorRequest(<<"1", "0", "0">>, <<>>, <<>>),
     InjectorRequest(<<"5", "9", "9">>, <<>>, <<>>),
     InjectorRequest(<<"9", "9">>, <<>>, <<>>),
     InjectorRequest(<<"6", "0", "0">>, <<>>, <<>>),
     InjectorRequest(<<"a", "b", "c">>, <<>>, <<>>),
     InjectorRequest(<<"2", "0", "1">>, <<"5", "0", "3">>, <<"1", "0", "0">>),
     InjectorRequest(<<"9", "9">>, <<"u", "n", "a", "v", "a", "i", "l", "a", "b", "l", "e">>, <<"1", "0", "0">>),
     InjectorRequest(<<>>, <<"t", "e", "a", "p", "o", "t">>, <<"1", "0", "0">>),
     InjectorRequest(<<>>, <<"t", "e", "a", "p", "o", "t">>, <<>>),
     InjectorRequest(<<>>, <<"5", "0", "0">>, <<>>),
     InjectorRequest(<<>>, <<"i", "n", "t", "e", "r", "n", "a", "l">>, <<>>),
     InjectorRequest(<<>>, <<"5", "0", "2">>, <<>>),
     InjectorRequest(<<>>, <<"b", "a", "d", "-", "g", "a", "t", "e", "w", "a", "y">>, <<>>),
     InjectorRequest(<<>>, <<"5", "0", "3">>, <<>>),
     InjectorRequest(<<>>, <<"U", "n", "a", "v", "a", "i", "l", "a", "b", "l", "e">>, <<>>),
     InjectorRequest(<<>>, <<"5", "0", "4">>, <<>>),
     InjectorRequest(<<>>, <<"G", "A", "T", "E", "W", "A", "Y", "-", "T", "I", "M", "E", "O", "U", "T">>, <<>>),
     InjectorRequest(<<>>, <<"4", "2", "9">>, <<>>),
     InjectorRequest(<<>>, <<"R", "a", "t", "e", "-", "L", "i", "m", "i", "t">>, <<>>),
     InjectorRequest(<<>>, <<"r", "a", "n", "d", "o", "m">>, <<>>),
     InjectorRequest(<<>>, <<"t", "i", "m", "e", "o", "u", "t">>, <<>>),
     InjectorRequest(<<>>, <<>>, <<"1", "0", "0">>),
     InjectorRequest(<<>>, <<>>, <<"0">>),
     InjectorRequest(<<>>, <<>>, <<"-", "5">>),
     InjectorRequest(<<>>, <<>>, <<"1", "0", "1">>),
     InjectorRequest(<<>>, <<>>, <<"a", "b", "c">>),
     InjectorRequest(<<>>, <<>>, <<"5", "0">>),
     InjectorRequest(<<>>, <<>>, <<"1">>),
     [InjectorRequest(<<"2", "0", "1">>, <<>>, <<>>) EXCEPT !.method = "POST", !.body = "hello"]}

InjectorPostRequests == {Post(<<Scenario("/a", Def2)>>)}

InitInjector == InitWith({0}, {NoEnviron}, {<<>>})

NextInjector ==
    \E w \in Workers :
        \/ Accept(w, InjectorRequests, TRUE)
        \/ Accept(w, InjectorPostRequests, TRUE)
        \/ EchoSteps(w)
        \/ ScenarioSteps(w)
        \/ PostSteps(w)

SpecInjector == InitInjector /\ [][NextInjector]_vars

\* ================================================================== claims
InFlightPost == {"post", "post_def", "post_idx"}
Served(w) == pc[w] = "done" /\ req[w].kind = "echo" /\ resp[w].scenario

\* the response the scenario engine writes for entry e of a definition
Entry(r, e) == [status |-> e.Status,
                body |-> IF e.Body # "" THEN e.Body ELSE echoRequestInfo(r)]
Answer(w) == [status |-> resp[w].status, body |-> resp[w].body]

\* C1: with requests handled one at a time and no replacement in between, the
\* k-th request (k = 0, 1, ...) that reaches the scenario engine for a path
\* whose definition has N >= 1 responses is answered with responses[k mod N].
C1_CyclicOrder ==
    \A w \in Workers :
        Served(w) =>
            LET def == scenarios[req[w].path]
            IN  /\ Len(def) >= 1
                /\ Answer(w) = Entry(req[w], def[(loc[w].k % Len(def)) + 1])

\* a request was answered after the sequence had wrapped around
C1_Witness ==
    \E w \in Workers :
        /\ Served(w)
        /\ Len(scenarios[req[w].path]) >= 2
        /\ loc[w].k >= Len(scenarios[req[w].path])
        /\ resp[w].status = scenarios[req[w].path][1].Status

\* C2 (as stated): the cursor value processScenario has just stored for a path
\* is in [0, N), N the length of the path's definition.
C2_Original ==
    \A w \in Workers :
        pc[w] = "scn_write" =>
            loc[w].stored \in 0..(Len(loc[w].responses) - 1)

\* C2 (amended): the cursor value processScenario stores is index+1 with index
\* the loaded cursor modulo the length N of the loaded definition, so it is in
\* [1, N]; the index that selected the response is in [0, N).
C2_StoredCursorRange ==
    \A w \in Workers :
        pc[w] = "scn_write" =>
            /\ loc[w].stored \in 1..Len(loc[w].responses)
            /\ loc[w].stored = (loc[w].idx % Len(loc[w].responses)) + 1
            /\ loc[w].index \in 0..(Len(loc[w].responses) - 1)

\* a request has just stored the cursor value N
C2_Witness ==
    \E w \in Workers :
        /\ pc[w] = "scn_write"
        /\ loc[w].stored = Len(loc[w].responses)
        /\ scenarioIndex[req[w].path] = loc[w].stored
        /\ scenarios[req[w].path] = loc[w].responses

\* C3: with requests handled one at a time, a completed POST /scenario leaves
\* the cursor of every path it lists at 0 and the path's definition as posted,
\* and the next request to the path is answered with the first entry of the
\* new definition, whatever the cursor and the old definition were.
C3_ResetOnInstall ==
    /\ \A w \in Workers :
          (pc[w] = "done" /\ req[w].kind = "post" /\ ~req[w].badJSON) =>
              \A i \in 1..Len(req[w].payload) :
                  LET p == req[w].payload[i].Path
                  IN  /\ scenarioIndex[p] = 0
                      /\ \E j \in i..Len(req[w].payload) :
                            /\ req[w].payload[j].Path = p
                            /\ scenarios[p] = req[w].payload[j].Responses
    /\ \A w \in Workers :
          (Served(w) /\ loc[w].k = 0) =>
              /\ loc[w].index = 0
              /\ Answer(w) = Entry(req[w], Head(scenarios[req[w].path]))

\* the first request after a replacement that overwrote an advanced cursor of
\* a definition of another length
C3_Witness ==
    \E w \in Workers :
        /\ Served(w)
        /\ loc[w].k = 0
        /\ replaced[req[w].path].cursor > 0
        /\ replaced[req[w].path].len > 0
        /\ replaced[req[w].path].len # Len(scenarios[req[w].path])

\* no POST /scenario is in flight and no request to p holds a loaded cursor
Quiet(p) ==
    \A v \in Workers :
        /\ pc[v] \notin InFlightPost
        /\ req[v].path = p => pc[v] \notin {"scn_idx", "scn_store"}

\* C4: no cursor update is lost: when the requests to p since the last install
\* (none of them overlapping a replacement) have all stored the cursor, the
\* cursor is as many steps (mod N) ahead as requests loaded it, and every
\* request was served the entry of its own ordinal.
C4_NoLostUpdate ==
    \A p \in DOMAIN scenarios \cap DOMAIN scenarioIndex :
        (Quiet(p) /\ ~raced[p] /\ Len(scenarios[p]) >= 1) =>
            /\ scenarioIndex[p] % Len(scenarios[p]) = visits[p] % Len(scenarios[p])
            /\ \A w \in Workers :
                  (req[w].path = p /\ pc[w] \in {"scn_write", "done"}
                     /\ loc[w].responses = scenarios[p]) =>
                      loc[w].index = loc[w].k % Len(scenarios[p])

\* C5: the cursor reset written by POST /scenario is never overwritten by a
\* request that loaded the cursor before the replacement: once the POST and
\* the requests that overlapped it have finished and no later request has
\* loaded the cursor, the next request gets the new definition's first entry.
C5_ResetNotOverwritten ==
    \A p \in DOMAIN scenarios \cap DOMAIN scenarioIndex :
        (Quiet(p) /\ visits[p] = 0 /\ Len(scenarios[p]) >= 1) =>
            CursorIndex(scenarioIndex[p], Len(scenarios[p])) = 0

\* C6: outside recordRequest's critical section the history buffer holds at
\* most config.HistorySize records, and so does every GET /history listing.
C6_HistoryBounded ==
    /\ historyMutex = 0 => Len(requestHistory) <= config.HistorySize
    /\ \A w \in Workers : Len(loc[w].listing) <= config.HistorySize

\* a full buffer after an eviction, and a listing of a full buffer
C6_Witness ==
    /\ historyMutex = 0
    /\ config.HistorySize > 0
    /\ Len(recorded) > config.HistorySize
    /\ Len(requestHistory) = config.HistorySize
    /\ \E w \in Workers :
          /\ pc[w] = "done"
          /\ req[w].kind = "history"
          /\ Len(loc[w].listing) = config.HistorySize

LastRecorded(k) == SubSeq(recorded, Len(recorded) - k + 1, Len(recorded))

\* C7: once more requests were recorded than the capacity K > 0, the buffer
\* holds exactly the last K recorded requests in recording order, and every
\* step that shortens the buffer removes exactly its oldest record.
C7_LastKRetained ==
    /\ [](( /\ historyMutex = 0
            /\ config.HistorySize > 0
            /\ Len(recorded) > config.HistorySize )
          => requestHistory = LastRecorded(config.HistorySize))
    /\ [][Len(requestHistory') < Len(requestHistory)
            => requestHistory' = Tail(requestHistory)]_vars

\* two evictions have happened
C7_Witness ==
    /\ historyMutex = 0
    /\ config.HistorySize > 0
    /\ Len(recorded) >= config.HistorySize + 2
    /\ requestHistory = LastRecorded(config.HistorySize)
    /\ requestHistory[1].Timestamp = Len(recorded) - config.HistorySize + 1

BeforeRecord == {"echo", "incr", "body", "rec_lock", "rec_append"}
AfterRecord == {"delays", "drawing", "testing", "scn_load", "scn_idx", "scn_store",
                "scn_write", "render", "done", "panic"}

\* C8 (as stated): every request that enters echoHandler while history is
\* enabled has been appended exactly once by the time it reaches the delay, the
\* error injector, the scenario engine or its end.
C8_Original ==
    \A w \in Workers :
        (req[w].kind = "echo" /\ config.HistorySize > 0) =>
            /\ pc[w] \in AfterRecord => loc[w].recordings = 1
            /\ pc[w] \in BeforeRecord => loc[w].recordings = 0

\* C8 (amended): the same for every request whose body was read without
\* error; a request whose body read fails is answered 400 and never recorded.
C8_RecordedOnce ==
    \A w \in Workers :
        (req[w].kind = "echo" /\ config.HistorySize > 0) =>
            /\ (pc[w] \in AfterRecord /\ ~req[w].bodyErr) =>
                   /\ loc[w].recordings = 1
                   /\ \E i \in 1..Len(recorded) :
                         /\ recorded[i].ID = req[w].id
                         /\ recorded[i].Method = req[w].method
                         /\ recorded[i].Body = req[w].body
            /\ pc[w] \in BeforeRecord => loc[w].recordings = 0
            /\ req[w].bodyErr =>
                   /\ loc[w].recordings = 0
                   /\ pc[w] = "done" => resp[w].status = 400

\* a chaos-injected request, recorded
C8_Witness ==
    \E w \in Workers :
        /\ pc[w] = "done"
        /\ req[w].kind = "echo"
        /\ loc[w].handledBy = "chaos"
        /\ loc[w].recordings = 1
        /\ Len(requestHistory) = 1
        /\ requestHistory[1].Headers = HeaderClone(req[w])

\* the delays a control's request-header value and its default value allow
HeaderDelays(header) ==
    CASE header = "X-Echo-Delay"        -> {5}
      [] header = "X-Echo-Jitter"       -> 3..6
      [] header = "X-Echo-Random-Delay" -> 2..3
      [] header = "X-Echo-Exponential"  -> 6..9
      [] header = "X-Echo-Latency"      -> {3}

DefaultDelays(header) ==
    CASE header = "X-Echo-Delay"        -> {9}
      [] header = "X-Echo-Jitter"       -> 6..7
      [] header = "X-Echo-Random-Delay" -> 4..6
      [] header = "X-Echo-Exponential"  -> 12..19
      [] header = "X-Echo-Latency"      -> 1..2

FamilyHeader(family) ==
    CASE family = "delay"       -> "X-Echo-Delay"
      [] family = "jitter"      -> "X-Echo-Jitter"
      [] family = "random"      -> "X-Echo-Random-Delay"
      [] family = "exponential" -> "X-Echo-Exponential"
      [] family = "latency"     -> "X-Echo-Latency"

\* C9: for delay, jitter, random-delay, exponential, latency, status, error and
\* chaos-rate, the value a request resolves is the header's when the header is
\* non-empty and the default's otherwise, and the delay slept, the status
\* forced and the error injected are those of that value alone.
C9_HeaderPrecedence ==
    \A w \in Workers :
        req[w].kind = "echo" =>
            /\ \A h \in DOMAIN loc[w].directive :
                  loc[w].directive[h] =
                      IF req[w].hdr[h] # <<>> THEN req[w].hdr[h] ELSE environ[EnvOf(h)]
            /\ (pc[w] \in {"testing", "scn_load", "render", "done"}
                  /\ loc[w].family \notin {"", "none"}) =>
                   loc[w].slept \in
                       IF req[w].hdr[FamilyHeader(loc[w].family)] # <<>>
                       THEN HeaderDelays(FamilyHeader(loc[w].family))
                       ELSE DefaultDelays(FamilyHeader(loc[w].family))
            /\ (pc[w] = "done" /\ loc[w].handledBy = "status") =>
                   /\ resp[w].forced
                   /\ resp[w].status = IF req[w].hdr["X-Echo-Status"] # <<>> THEN 201 ELSE 500
            /\ (pc[w] = "done" /\ loc[w].handledBy = "error") =>
                   /\ resp[w].status = IF req[w].hdr["X-Echo-Error"] # <<>> THEN 503 ELSE 429
                   /\ resp[w].retryAfter = IF req[w].hdr["X-Echo-Error"] # <<>> THEN "" ELSE "60"
            /\ (pc[w] = "done" /\ "X-Echo-Chaos" \in DOMAIN loc[w].directive
                  /\ req[w].hdr["X-Echo-Chaos"] # <<>>) =>
                   loc[w].handledBy = "chaos"

\* header and default both set for the forced status: the header's was forced
C9_Witness ==
    \E w \in Workers :
        /\ pc[w] = "done"
        /\ req[w].hdr["X-Echo-Status"] # <<>>
        /\ environ["ECHO_STATUS"] # <<>>
        /\ req[w].hdr["X-Echo-Status"] # environ["ECHO_STATUS"]
        /\ resp[w].status = 201
        /\ resp[w].forced

\* the response header name both sources map to
FromRequest(h) == CanonicalMIMEHeaderKey(SetHeaderName(CanonicalMIMEHeaderKey(h.suffix)))
FromEnviron(e) == CanonicalMIMEHeaderKey(EnvHeaderName(e.name))

\* C10: when a request's X-Echo-Set-Header-<Name> and an ECHO_HEADER_<NAME>
\* variable map to the same response header, a normal echo response carries
\* the request header's value.
C10_CustomHeaderPrecedence ==
    \A w \in Workers :
        (pc[w] = "done" /\ req[w].kind = "echo" /\ ~req[w].bodyErr
           /\ loc[w].handledBy = "none" /\ ~resp[w].scenario) =>
            \A i \in 1..Len(req[w].setHeaders) :
                (\E j \in 1..Len(envHeaders) :
                    FromEnviron(envHeaders[j]) = FromRequest(req[w].setHeaders[i]))
                => resp[w].custom[FromRequest(req[w].setHeaders[i])]
                     = req[w].setHeaders[i].value

\* ------------------------------------------------------ the delay directives
\* the value a request resolves for a control
Directive(w, header) == Resolve(req[w].hdr, environ, header)

\* applyDelays has run for the request of worker w
Delayed(w) == req[w].kind = "echo" /\ loc[w].family # ""

\* the request of worker w was aborted inside applyDelays
AbortedInDelays(w) == Delayed(w) /\ pc[w] = "panic" /\ loc[w].handledBy = ""

FamilyNames == <<"delay", "jitter", "random", "exponential", "latency">>

\* the two integers of a "a<sep>b" directive with the ms suffix dropped
Part(v, sep, i) == Atoi(TrimSuffix(Split(v, sep)[i], MS))
TwoParts(v, sep) == Len(Split(v, sep)) = 2
TwoIntegers(v, sep) ==
    TwoParts(v, sep) /\ ~Part(v, sep, 1).err /\ ~Part(v, sep, 2).err

\* the value of a family's directive parses as the family's form: a
\* non-negative duration; base,variance non-negative; min,max with min <= max;
\* base,attempt both >= 1; a duration or a range min-max with min <= max
Parses(header, v) ==
    /\ v # <<>>
    /\ CASE header = "X-Echo-Delay" ->
                ~Atoi(TrimSuffix(v, MS)).err /\ Atoi(TrimSuffix(v, MS)).val >= 0
         [] header = "X-Echo-Jitter" ->
                TwoIntegers(v, ",") /\ Part(v, ",", 1).val >= 0 /\ Part(v, ",", 2).val >= 0
         [] header = "X-Echo-Random-Delay" ->
                TwoIntegers(v, ",") /\ Part(v, ",", 2).val >= Part(v, ",", 1).val
         [] header = "X-Echo-Exponential" ->
                TwoIntegers(v, ",") /\ Part(v, ",", 1).val >= 1 /\ Part(v, ",", 2).val >= 1
         [] header = "X-Echo-Latency" ->
                IF Contains(v, "-")
                THEN TwoIntegers(v, "-") /\ Part(v, "-", 2).val >= Part(v, "-", 1).val
                ELSE ~Atoi(TrimSuffix(v, MS)).err

\* the value of a family's directive parses and passes the family's check
Honoured(header, v) ==
    /\ v # <<>>
    /\ CASE header = "X-Echo-Delay" ->
                ~Atoi(TrimSuffix(v, MS)).err /\ Atoi(TrimSuffix(v, MS)).val > 0
         [] header = "X-Echo-Jitter" ->
                TwoIntegers(v, ",") /\ Part(v, ",", 2).val >= 0
         [] header = "X-Echo-Random-Delay" ->
                TwoIntegers(v, ",") /\ Part(v, ",", 2).val >= Part(v, ",", 1).val
         [] header = "X-Echo-Exponential" ->
                TwoIntegers(v, ",") /\ Part(v, ",", 1).val > 0 /\ Part(v, ",", 2).val > 0
         [] header = "X-Echo-Latency" ->
                IF Contains(v, "-")
                THEN TwoParts(v, "-") /\ Part(v, "-", 2).val >= Part(v, "-", 1).val
                ELSE ~Atoi(TrimSuffix(v, MS)).err

\* the first family, in priority order, whose directive satisfies P; 0 if none
FirstFamily(P(_, _), w) ==
    LET ok == {i \in 1..Len(DelayHeaders) : P(DelayHeaders[i], Directive(w, DelayHeaders[i]))}
    IN  IF ok = {} THEN 0 ELSE CHOOSE i \in ok : \A j \in ok : i <= j

FamilyOf(i) == IF i = 0 THEN "none" ELSE FamilyNames[i]

\* the delays family i alone can apply to the request of worker w
FamilyDelays(i, w) ==
    LET outcomes == CASE i = 1 -> SimpleDelay(req[w].hdr, environ)
                      [] i = 2 -> JitterDelay(req[w].hdr, environ)
                      [] i = 3 -> RandomDelay(req[w].hdr, environ)
                      [] i = 4 -> ExponentialDelay(req[w].hdr, environ)
                      [] i = 5 -> LatencyDelay(req[w].hdr, environ)
                      [] OTHER -> {}
    IN  {o.ms : o \in {x \in outcomes : ~x.panic}}

\* the position of the honoured family in the priority order; 6 when none is
Rank(family) ==
    IF \E i \in 1..Len(FamilyNames) : FamilyNames[i] = family
    THEN CHOOSE i \in 1..Len(FamilyNames) : FamilyNames[i] = family
    ELSE Len(FamilyNames) + 1

C12_ExponentialRange ==
    \A w \in Workers :
        (/\ Delayed(w)
         /\ loc[w].family = "exponential"
         /\ Part(Directive(w, "X-Echo-Exponential"), ",", 1).val >= 1
         /\ Part(Directive(w, "X-Echo-Exponential"), ",", 2).val >= 1) =>
            /\ ~AbortedInDelays(w)
            /\ loc[w].slept \in 0..maxDelay

\* the bounds of the range directive that applyDelays honoured
RangeOf(w) ==
    IF loc[w].family = "random"
    THEN [min |-> Part(Directive(w, "X-Echo-Random-Delay"), ",", 1).val,
          max |-> Part(Directive(w, "X-Echo-Random-Delay"), ",", 2).val]
    ELSE [min |-> Part(Directive(w, "X-Echo-Latency"), "-", 1).val,
          max |-> Part(Directive(w, "X-Echo-Latency"), "-", 2).val]

\* C13: a random-range directive min,max and a latency range min-max with
\* min <= max give a delay d with min <= d <= max, and d <= 300000 ms
\* whenever min <= 300000.
C13_RangeCeiling ==
    \A w \in Workers :
        (/\ Delayed(w)
         /\ \/ loc[w].family = "random"
            \/ loc[w].family = "latency" /\ Contains(Directive(w, "X-Echo-Latency"), "-")
         /\ RangeOf(w).min <= RangeOf(w).max) =>
            /\ ~AbortedInDelays(w)
            /\ loc[w].slept >= RangeOf(w).min
            /\ loc[w].slept <= RangeOf(w).max
            /\ RangeOf(w).min <= maxDelay => loc[w].slept <= maxDelay

\* C14: a jitter directive base,variance with base >= 0 and variance >= 0
\* (variance = 0 included) gives a delay d with
\* max(0, base - variance) <= d <= min(300000, base + variance).
C14_JitterRange ==
    \A w \in Workers :
        (/\ Delayed(w)
         /\ loc[w].family = "jitter"
         /\ Part(Directive(w, "X-Echo-Jitter"), ",", 1).val >= 0
         /\ Part(Directive(w, "X-Echo-Jitter"), ",", 2).val >= 0) =>
            LET base == Part(Directive(w, "X-Echo-Jitter"), ",", 1).val
                variance == Part(Directive(w, "X-Echo-Jitter"), ",", 2).val
            IN  /\ ~AbortedInDelays(w)
                /\ loc[w].slept >= (IF base - variance < 0 THEN 0 ELSE base - variance)
                /\ loc[w].slept <= Min(maxDelay, base + variance)

\* C15: whatever the delay directives are, applyDelays returns and the request
\* goes on to the error injector: no request is aborted inside applyDelays.
C15_DelaysReturn ==
    \A w \in Workers : ~AbortedInDelays(w)

\* ------------------------------------------------------- the error injector
\* processTestingFeatures has run for the request of worker w
Injected(w) == req[w].kind = "echo" /\ loc[w].handledBy # ""

HandledKinds == {"status", "error", "chaos"}

\* the resolved status directive is an integer of 100..599
ValidStatus(w) ==
    LET a == Atoi(Directive(w, "X-Echo-Status"))
    IN  Directive(w, "X-Echo-Status") # <<>> /\ ~a.err /\ a.val >= 100 /\ a.val <= 599

ScenarioEnginePositions == {"scn_load", "scn_idx", "scn_store", "scn_write", "render"}

\* C17: a request the injector handled (forced status, error keyword, timeout
\* or chaos hit) ends there: the scenario engine never runs for it, its
\* response is not a scenario response, and only the scenario engine of a
\* request that was not handled, or POST /scenario, changes a definition or a
\* cursor.
C17_HandledSkipsScenario ==
    /\ [](\A w \in Workers :
            (Injected(w) /\ loc[w].handledBy \in HandledKinds) =>
                /\ pc[w] = "done"
                /\ ~resp[w].scenario
                /\ loc[w].responses = <<>>
                /\ loc[w].picked = <<>>
                /\ loc[w].stored = 0)
    /\ [][(scenarios' # scenarios \/ scenarioIndex' # scenarioIndex) =>
             \E w \in Workers :
                 /\ pc'[w] # pc[w]
                 /\ \/ pc[w] \in {"post_def", "post_idx"}
                    \/ pc[w] \in {"scn_idx", "scn_store"} /\ loc[w].handledBy = "none"]_vars

\* a forced error answered a request whose path has a scenario with an
\* advanced cursor
C17_Witness ==
    \E w \in Workers :
        /\ Injected(w)
        /\ pc[w] = "done"
        /\ loc[w].handledBy = "error"
        /\ req[w].path \in DOMAIN scenarios
        /\ scenarioIndex[req[w].path] = 1
        /\ resp[w].status = 503
        /\ ~resp[w].scenario

\* the error step applies: an error directive is set and no status is forced
ErrorStep(w) == Injected(w) /\ ~ValidStatus(w) /\ Directive(w, "X-Echo-Error") # <<>>
Keyword(w) == ToLower(Directive(w, "X-Echo-Error"))
ByError(w, status, body) ==
    /\ loc[w].handledBy = "error"
    /\ pc[w] = "done"
    /\ resp[w].status = status
    /\ resp[w].body = body
    /\ resp[w].contentType = "text/plain"

\* the keywords C18 lists, and the ones the error step knows
ListedKeywords ==
    {Kw_500, Kw_internal, Kw_502, Kw_bad_gateway, Kw_503, Kw_unavailable,
     Kw_504, Kw_gateway_timeout, Kw_429, Kw_rate_limit, Kw_random}

\* the fixed outcomes of the listed keywords
ListedOutcomes(w) ==
    /\ Keyword(w) \in {Kw_500, Kw_internal} =>
           ByError(w, 500, "Simulated internal server error")
    /\ Keyword(w) \in {Kw_502, Kw_bad_gateway} =>
           ByError(w, 502, "Simulated bad gateway")
    /\ Keyword(w) \in {Kw_503, Kw_unavailable} =>
           ByError(w, 503, "Simulated service unavailable")
    /\ Keyword(w) \in {Kw_504, Kw_gateway_timeout} =>
           ByError(w, 504, "Simulated gateway timeout")
    /\ Keyword(w) \in {Kw_429, Kw_rate_limit} =>
           ByError(w, 429, "Simulated rate limit exceeded") /\ resp[w].retryAfter = "60"
    /\ Keyword(w) = Kw_random =>
           /\ loc[w].handledBy = "error"
           /\ pc[w] = "done"
           /\ resp[w].status \in {500, 502, 503, 504, 429}
    /\ Keyword(w) \notin {Kw_429, Kw_rate_limit} => resp[w].retryAfter = ""

\* C18 (as stated): with no valid forced status the error keyword, compared
\* case-insensitively, has the listed fixed outcome and is reported handled,
\* and every keyword that is not listed is not handled by the error step.
C18_Original ==
    \A w \in Workers :
        ErrorStep(w) =>
            /\ ListedOutcomes(w)
            /\ Keyword(w) \notin ListedKeywords => loc[w].handledBy # "error"

\* C18 (amended): as stated, except that the keyword timeout is handled by the
\* error step too: it sleeps 65 s and reports handled with no response
\* written; every keyword other than timeout and the listed ones is not
\* handled by the error step.
C18_KeywordOutcomes ==
    \A w \in Workers :
        ErrorStep(w) =>
            /\ ListedOutcomes(w)
            /\ Keyword(w) = Kw_timeout =>
                   /\ loc[w].handledBy = "error"
                   /\ pc[w] = "done"
                   /\ loc[w].errorSlept = TimeoutSleepMs
                   /\ resp[w] = NoResponse
            /\ Keyword(w) # Kw_timeout => loc[w].errorSlept = 0
            /\ Keyword(w) \notin ListedKeywords \cup {Kw_timeout} =>
                   loc[w].handledBy # "error"

\* a keyword in capital letters was matched
C18_Witness ==
    \E w \in Workers :
        /\ ErrorStep(w)
        /\ Directive(w, "X-Echo-Error") # Keyword(w)
        /\ Keyword(w) = Kw_gateway_timeout
        /\ ByError(w, 504, "Simulated gateway timeout")

\* the chaos rate the request resolves, as the claim reads it
ChaosDirective(w) == Atoi(Directive(w, "X-Echo-Chaos"))
NoChaos(w) ==
    \/ Directive(w, "X-Echo-Chaos") = <<>>
    \/ ChaosDirective(w).err
    \/ ChaosDirective(w).val <= 0
    \/ ChaosDirective(w).val > 100

\* C19: with no forced status and no forced error, a chaos rate of 100 always
\* injects, with a status of {500,502,503,504,408,429}; a rate that is absent,
\* 0, negative, above 100 or not an integer never injects and the injector
\* reports not handled; for 0 < p <= 100 the injector makes one draw of
\* 0..99 and injects exactly when the draw is below p.
C19_ChaosRate ==
    \A w \in Workers :
        /\ (Injected(w) /\ loc[w].handledBy \notin {"status", "error"}) =>
              /\ (~NoChaos(w) /\ ChaosDirective(w).val = 100) =>
                     loc[w].handledBy = "chaos"
              /\ NoChaos(w) => loc[w].handledBy = "none"
              /\ loc[w].handledBy = "chaos" =>
                     /\ ~NoChaos(w)
                     /\ pc[w] = "done"
                     /\ resp[w].status \in {500, 502, 503, 504, 408, 429}
        /\ (req[w].kind = "echo" /\ pc[w] = "testing") =>
              LET outcomes == {o \in processTestingFeatures(req[w].hdr, environ, req[w]) :
                                  o.kind \notin {"status", "error"}}
              IN  outcomes # {} =>
                      IF NoChaos(w)
                      THEN \A o \in outcomes : ~o.handled /\ o.draw = 0 - 1
                      ELSE /\ {o.draw : o \in outcomes} = 0..99
                           /\ \A o \in outcomes :
                                  o.handled <=> o.draw < ChaosDirective(w).val

\* a chaos rate of 50 injected on one request
C19_Witness ==
    \E w \in Workers :
        /\ Injected(w)
        /\ pc[w] = "done"
        /\ ChaosDirective(w).val = 50
        /\ loc[w].handledBy = "chaos"
        /\ resp[w].status = 408

\* ---------------------------------------------------------------------- C20
\* a self-replay: a replay request with no target
SelfReplay(w) == req[w].kind = "replay" /\ req[w].target = ""

\* the self-replay of w has received the outcome of its re-issued request
Replayed(w) == SelfReplay(w) /\ pc[w] = "done" /\ loc[w].found

\* request q carries the method, body, headers and URL of record e
Carries(q, e) ==
    /\ q.method = e.Method
    /\ q.body = e.Body
    /\ q.path = e.URL
    /\ q.id = e.ID
    /\ HeaderClone(q) = e.Headers

\* request q is an echo request of this server that carries record e
Reissues(q, e) == q.kind = "echo" /\ Carries(q, e)

\* while the replay waits, the request in flight is the stored one
ReissuedAsStored ==
    \A w \in Workers :
        (SelfReplay(w) /\ pc[w] = "rp_wait") =>
            \E i \in 1..Len(recorded) :
                /\ recorded[i].ID = req[w].replayID
                /\ Reissues(req[loc[w].upstream], recorded[i])

\* the body of response r with its content coding removed
Decoded(r) == IF r.encoding = "gzip" THEN "gunzip(" \o r.body \o ")" ELSE r.body

\* C20 as stated: a self-replay of a recorded id re-issues the stored method,
\* body and headers to the stored URL on this server, and whenever the server
\* wrote a response for the re-issued request, the replay response carries
\* that response's status, Content-Type and body (raw or decoded).
C20_Original ==
    /\ ReissuedAsStored
    /\ \A w \in Workers :
          (Replayed(w) /\ loc[w].clientResp.status # 0) =>
              /\ resp[w].status = loc[w].clientResp.status
              /\ resp[w].contentType = loc[w].clientResp.contentType
              /\ resp[w].body \in {loc[w].clientResp.body, Decoded(loc[w].clientResp)}

\* C20 amended: a self-replay of a recorded id re-issues the stored method,
\* body and headers to the stored URL on this server. When the re-issued
\* request returns within the 30 s client timeout, the replay response carries
\* the status and Content-Type the server produced and its body, decoded when
\* the server gzip-encoded it and the stored headers name no Accept-Encoding;
\* when the re-issued request aborts or takes 30 s or longer, the replay
\* response is 500 "Replay failed".
C20_ReplayForwards ==
    /\ ReissuedAsStored
    /\ \A w \in Workers :
          Replayed(w) =>
              LET produced == loc[w].clientResp
                  late == loc[w].clientWait >= ClientTimeoutMs
                  aborted == loc[w].clientEnd = "panic"
              IN  IF late \/ aborted
                  THEN /\ resp[w].status = 500
                       /\ resp[w].body = "Replay failed"
                  ELSE /\ resp[w].status = produced.status
                       /\ resp[w].contentType = produced.contentType
                       /\ resp[w].body =
                             IF loc[w].record.Headers.acceptEncoding = ""
                             THEN Decoded(produced) ELSE produced.body

\* a self-replay forwarded an injected 503 of the re-issued request
C20_Witness ==
    \E w \in Workers :
        /\ Replayed(w)
        /\ ~loc[w].clientErr
        /\ loc[w].clientResp.forced
        /\ loc[w].clientResp.status = 503
        /\ resp[w].status = 503
        /\ resp[w].body = "hello"

\* ---------------------------------------------------------------------- C21
\* worker v has finished the request that the self-replay of w re-issued, and
\* the replay has not yet taken the outcome
ReissueFinished(w, v) ==
    /\ SelfReplay(w)
    /\ pc[w] = "rp_wait"
    /\ loc[w].upstream = v
    /\ pc[v] \in Finished

\* the cursor of path p as a position in a cycle of n responses
Position(index, p, n) == IF p \in DOMAIN index THEN CursorIndex(index[p], n) ELSE 0

InjectorKinds == {"status", "error", "chaos"}

\* C21: a self-replayed request increments the request counter once, is
\* appended to the history once, and advances the scenario cursor of its path
\* by one step when a scenario is installed there and no injector
\* short-circuits it.
C21_ReplayEffects ==
    \A w, v \in Workers :
        ReissueFinished(w, v) =>
            LET p == req[v].path
                b == loc[w].before
            IN  /\ requestCounter = b.counter + 1
                /\ Len(recorded) = b.recorded + 1
                /\ (p \in DOMAIN scenarios /\ loc[v].handledBy \notin InjectorKinds) =>
                      LET n == Len(scenarios[p])
                      IN  /\ n > 0
                          /\ Position(scenarioIndex, p, n) = (Position(b.index, p, n) + 1) % n

\* ---------------------------------------------------------------------- C22
\* a replay to a target has returned from its outbound call
TargetReplayed(w) ==
    /\ req[w].kind = "replay"
    /\ req[w].target # ""
    /\ pc[w] = "done"
    /\ loc[w].found
    /\ loc[w].attempts = 1

\* the outbound request of a replay carries a record of the replayed id
SentAsStored(w) ==
    \E i \in 1..Len(recorded) :
        /\ recorded[i].ID = req[w].replayID
        /\ Carries(loc[w].httpReq[1], recorded[i])

Shared == <<requestHistory, recorded, scenarios, scenarioIndex, requestCounter>>

\* worker w takes a step of replayHandler before any outbound request
ReplayScanStep(w) ==
    /\ req[w].kind = "replay"
    /\ pc[w] \in {"replay", "rp_lookup", "rp_scan"}
    /\ pc'[w] # pc[w]

\* the replay request of w names an id that no record of the history has
UnknownID(w) ==
    /\ req[w].kind = "replay"
    /\ ~req[w].badJSON
    /\ \A i \in 1..Len(requestHistory) : requestHistory[i].ID # req[w].replayID

\* C23: a replay of an id that matches no record returns 404 and a replay
\* with a malformed body returns 400; in both cases no outbound request is
\* issued and the history, the scenario definitions and cursors and the
\* request counter are unchanged.
C23_ReplayRejected ==
    /\ [](\A w \in Workers :
            (req[w].kind = "replay" /\ pc[w] = "done") =>
                /\ req[w].badJSON =>
                      (resp[w].status = 400 /\ loc[w].attempts = 0 /\ loc[w].upstream = 0)
                /\ UnknownID(w) =>
                      (resp[w].status = 404 /\ loc[w].attempts = 0 /\ loc[w].upstream = 0))
    /\ [][\A w \in Workers :
            ReplayScanStep(w) =>
                /\ UNCHANGED Shared
                /\ \A v \in Workers \ {w} : pc'[v] = pc[v] /\ req'[v] = req[v]]_vars

\* an unknown id was answered 404 while the history held a record
C23_Witness ==
    \E w \in Workers :
        /\ UnknownID(w)
        /\ pc[w] = "done"
        /\ resp[w].status = 404
        /\ Len(requestHistory) > 0
        /\ requestCounter > 0

\* ---------------------------------------------------------------------- C24
\* worker w handles a POST /scenario whose payload does not decode
BadScenarioPost(w) == req[w].kind = "post" /\ req[w].badJSON

\* C24: a POST /scenario whose payload fails to decode returns 400 and leaves
\* every scenario definition and every cursor as it was; no path of the
\* payload is installed.
C24_BadPayloadRejected ==
    /\ [](\A w \in Workers :
            BadScenarioPost(w) =>
                /\ pc[w] \in {"post", "done"}
                /\ pc[w] = "done" => resp[w].status = 400)
    /\ [][\A w \in Workers :
            (BadScenarioPost(w) /\ pc'[w] # pc[w]) =>
                UNCHANGED <<scenarios, scenarioIndex>>]_vars

\* a payload that broke off after its first scenario was answered 400 while
\* another definition was installed and its cursor had advanced
C24_Witness ==
    \E w \in Workers :
        /\ BadScenarioPost(w)
        /\ req[w].payload # <<>>
        /\ pc[w] = "done"
        /\ resp[w].status = 400
        /\ "/a" \in DOMAIN scenarios
        /\ scenarios["/a"] # req[w].payload[1].Responses
        /\ scenarioIndex["/a"] > 0

\* ---------------------------------------------------------------------- C25
\* the replay of w has returned after its outbound request failed
ReplayFailure(w) ==
    /\ req[w].kind = "replay"
    /\ pc[w] = "done"
    /\ loc[w].found
    /\ (loc[w].clientErr \/ NewRequestError(req[w].target))

PassedRequestID(w) == pc[w] \notin {"idle", "mw_id"}

\* the response of w carries X-Request-ID: the client's value when it sent
\* one, a generated token otherwise; the request carries the same id
CarriesRequestID(w) ==
    /\ loc[w].requestID # ""
    /\ req[w].id = loc[w].requestID
    /\ IF loc[w].supplied # ""
       THEN loc[w].requestID = loc[w].supplied
       ELSE loc[w].requestID \in Tokens

\* the record that the echo request of w appended has the id of its response
RecordedUnderID(w) ==
    (req[w].kind = "echo" /\ loc[w].recordings = 1) =>
        recorded[Len(recorded)].ID = loc[w].requestID

\* the retained records with the id that the replay of w names
Retained(w) ==
    {j \in 1..Len(requestHistory) : requestHistory[j].ID = req[w].replayID}

\* C26 as stated: every response that passed the middleware carries
\* X-Request-ID (the client's value or a generated token), the history record
\* of the request has that id, and a replay by that id finds that record
\* while it is retained (stated here for the ids that clients supplied).
C26_Original ==
    \A w \in Workers :
        /\ PassedRequestID(w) => (CarriesRequestID(w) /\ RecordedUnderID(w))
        /\ (req[w].kind = "replay" /\ pc[w] = "rp_send" /\
            req[w].replayID \notin Tokens) =>
              \A j \in Retained(w) : loc[w].record = requestHistory[j]

\* C26 amended: every response that passed the middleware carries
\* X-Request-ID (the client's value or a generated token) and the history
\* record of the request has that id; a replay by that id finds a record
\* whenever one with that id is retained: the oldest retained record with
\* that id, which is the request's own record only when no older retained
\* record has the same id.
C26_RequestID ==
    \A w \in Workers :
        /\ PassedRequestID(w) => (CarriesRequestID(w) /\ RecordedUnderID(w))
        /\ (req[w].kind = "replay" /\ pc[w] = "rp_send") =>
              /\ Retained(w) # {}
              /\ loc[w].record.ID = req[w].replayID
              /\ \A j \in Retained(w) :
                    loc[w].record.Timestamp <= requestHistory[j].Timestamp
        /\ (req[w].kind = "replay" /\ pc[w] = "done" /\ resp[w].status = 404) =>
              Retained(w) = {}

\* a replay found the record of a request to which the middleware had given
\* a generated id
C26_Witness ==
    \E w \in Workers :
        /\ req[w].kind = "replay"
        /\ pc[w] = "rp_send"
        /\ req[w].replayID \in Tokens
        /\ loc[w].record.ID = req[w].replayID
        /\ loc[w].record.Method = "GET"

\* ---------------------------------------------------------------------- C27
\* C27: a request that the rate limiter rejects is answered 429 with
\* Retry-After: 60 and no core logic runs for it: it takes no counter value,
\* appends no record, loads no scenario cursor, sleeps no delay and meets no
\* injector; only requests to paths other than /sse are rejected, and the
\* rejection itself leaves the shared state unchanged.
C27_RejectedBeforeCore ==
    /\ [](\A w \in Workers :
            loc[w].limited =>
                /\ pc[w] = "done"
                /\ req[w].path # "/sse"
                /\ resp[w].status = 429
                /\ resp[w].retryAfter = "60"
                /\ loc[w].currentCount = 0
                /\ loc[w].recordings = 0
                /\ loc[w].slept = 0
                /\ loc[w].handledBy = ""
                /\ loc[w].responses = <<>>
                /\ loc[w].picked = <<>>)
    /\ [][\A w \in Workers :
            (~loc[w].limited /\ loc'[w].limited) =>
                UNCHANGED <<requestCounter, requestHistory, recorded, scenarios,
                            scenarioIndex>>]_vars

\* a request was rejected after earlier requests had been counted and
\* recorded and a scenario had been installed
C27_Witness ==
    \E w \in Workers :
        /\ loc[w].limited
        /\ req[w].kind = "echo"
        /\ resp[w].status = 429
        /\ requestCounter > 0
        /\ Len(requestHistory) > 0
        /\ "/a" \in DOMAIN scenarios

\* ---------------------------------------------------------------------- C28
\* the echo request of w has not yet completed its increment
BeforeCount(w) == pc[w] \in {"echo", "incr"}

\* the echo request of w holds the counter value it captured
Counted(w) == pc[w] \notin {"idle", "echo", "incr"}

\* C28: every request entering echoHandler increments the counter exactly
\* once and atomically: the counter equals the number of requests that have
\* completed their increment, each increment raises it by one and captures
\* the new value, no two requests in flight hold the same value, and the
\* counter never decreases.
C28_CounterAtomic ==
    /\ [](/\ requestCounter = started - Cardinality({w \in Workers : BeforeCount(w)})
          /\ \A w \in Workers :
                Counted(w) => loc[w].currentCount \in 1..requestCounter
          /\ \A w, v \in Workers :
                (w # v /\ Counted(w) /\ Counted(v)) =>
                    loc[w].currentCount # loc[v].currentCount)
    /\ [][/\ requestCounter' >= requestCounter
          /\ \A w \in Workers :
                (pc[w] = "incr" /\ pc'[w] # "incr") =>
                    /\ requestCounter' = requestCounter + 1
                    /\ loc'[w].currentCount = requestCounter']_vars

\* two requests in flight at once hold the values 1 and 2 in either order of
\* arrival, while the counter stands at 2
C28_Witness ==
    \E w, v \in Workers :
        /\ w < v
        /\ Counted(w) /\ Counted(v)
        /\ loc[w].currentCount = 2
        /\ loc[v].currentCount = 1
        /\ requestCounter = 2

\* the fixed-delay directive of a request, as applyDelays reads it
FixedDelay(w) == Atoi(TrimSuffix(Directive(w, "X-Echo-Delay"), MS))

HasFixedDelay(w) ==
    Delayed(w) /\ Directive(w, "X-Echo-Delay") # <<>> /\ ~FixedDelay(w).err

FixedDelayApplied(w) ==
    /\ loc[w].family = "delay"
    /\ loc[w].slept = Min(FixedDelay(w).val, maxDelay)
    /\ pc[w] # "panic"

\* C31 (as stated): a fixed-delay directive whose value is any non-negative
\* integer number of milliseconds, 0 included, is the honoured family: the
\* delay applied is min(value, 300000) ms and no other family contributes.
C31_Original ==
    \A w \in Workers :
        (HasFixedDelay(w) /\ FixedDelay(w).val >= 0) => FixedDelayApplied(w)

\* C31 (amended): a fixed-delay directive whose value is a positive integer
\* is the honoured family: the delay applied is min(value, 300000) ms and no
\* other family contributes; a value of 0 is skipped like an absent one and
\* the families after it are tried.
C31_FixedDelay ==
    \A w \in Workers :
        HasFixedDelay(w) =>
            /\ FixedDelay(w).val > 0 => FixedDelayApplied(w)
            /\ FixedDelay(w).val <= 0 => loc[w].family # "delay"

\* a fixed delay above the ceiling was applied as 300000 ms although the
\* request also carries a jitter directive
C31_Witness ==
    \E w \in Workers :
        /\ HasFixedDelay(w)
        /\ FixedDelay(w).val > maxDelay
        /\ Directive(w, "X-Echo-Jitter") # <<>>
        /\ loc[w].family = "delay"
        /\ loc[w].slept = maxDelay

\* the error keywords the switch of the error step has a case for
KnownKeywords == ListedKeywords \cup {Kw_timeout}

KnownKeyword(w) ==
    Directive(w, "X-Echo-Error") # <<>> /\ Keyword(w) \in KnownKeywords

\* C32: the error injector resolves its directives in the order forced
\* status, error keyword, chaos rate, and the first that applies decides: a
\* valid status wins over any keyword and chaos rate; with a status that is
\* not an integer of 100..599 a recognised keyword decides; with neither,
\* only the chaos rate can inject; and when none applies the injector
\* reports not handled and has written nothing.
C32_InjectorOrder ==
    \A w \in Workers :
        Injected(w) =>
            /\ ValidStatus(w) => (loc[w].handledBy = "status" /\ resp[w].forced)
            /\ (~ValidStatus(w) /\ KnownKeyword(w)) =>
                   (loc[w].handledBy = "error" /\ ~resp[w].forced)
            /\ (~ValidStatus(w) /\ ~KnownKeyword(w)) =>
                   /\ loc[w].handledBy \in {"chaos", "none"}
                   /\ NoChaos(w) => loc[w].handledBy = "none"
            /\ loc[w].handledBy = "chaos" =>
                   resp[w].status \in {500, 502, 503, 504, 408, 429}
            /\ (loc[w].handledBy = "none" /\ pc[w] = AfterTesting(FALSE)) =>
                   resp[w] = NoResponse

\* an invalid status and a recognised keyword with a chaos rate of 100: the
\* keyword decided
C32_Witness ==
    \E w \in Workers :
        /\ Injected(w)
        /\ Directive(w, "X-Echo-Status") # <<>>
        /\ ~ValidStatus(w)
        /\ KnownKeyword(w)
        /\ ~NoChaos(w)
        /\ loc[w].handledBy = "error"
        /\ resp[w].status = 503

\* ------------------------------- ill-formed directives over set defaults
\* a non-empty value of each control that does not parse as the control's form
MalformedValue(header) ==
    CASE header = "X-Echo-Delay" -> <<"a", "b", "c">>
      [] header = "X-Echo-Jitter" -> <<"5">>
      [] header = "X-Echo-Random-Delay" -> <<"2", ",", "x">>
      [] header = "X-Echo-Exponential" -> <<"x", ",", "1">>
      [] header = "X-Echo-Latency" -> <<"a", "b", "c">>
      [] header = "X-Echo-Status" -> <<"a", "b", "c">>
      [] header = "X-Echo-Error" -> <<"t", "e", "a", "p", "o", "t">>
      [] header = "X-Echo-Chaos" -> <<"a", "b", "c">>

MalformedRequests ==
    {BaseRequest}
    \cup {[BaseRequest EXCEPT !.hdr = WithHeader(h, MalformedValue(h))] : h \in ControlHeaders}

InitMalformed == InitWith({0}, Environs, {<<>>})

NextMalformed ==
    \E w \in Workers :
        \/ Accept(w, MalformedRequests, TRUE)
        \/ EchoSteps(w)

SpecMalformed == InitMalformed /\ [][NextMalformed]_vars

\* the request header of a delay family is set and does not parse
Unparsed(w, h) == req[w].hdr[h] # <<>> /\ ~Parses(h, req[w].hdr[h])

\* the delays applyDelays can apply when control h is set nowhere
DelaysWithout(w, h) ==
    {o.ms : o \in applyDelays([req[w].hdr EXCEPT ![h] = <<>>],
                              [environ EXCEPT ![EnvOf(h)] = <<>>])}

\* the header's status, keyword or rate does not select its step
UnparsedStatus(w) ==
    LET v == req[w].hdr["X-Echo-Status"]
    IN  v # <<>> /\ (Atoi(v).err \/ Atoi(v).val < 100 \/ Atoi(v).val > 599)

UnparsedError(w) ==
    LET v == req[w].hdr["X-Echo-Error"]
    IN  v # <<>> /\ ToLower(v) \notin KnownKeywords

UnparsedChaos(w) ==
    LET v == req[w].hdr["X-Echo-Chaos"]
    IN  v # <<>> /\ (Atoi(v).err \/ Atoi(v).val <= 0 \/ Atoi(v).val > 100)

\* C33: a control whose request header is non-empty but does not parse is
\* treated as not parsed, and the process-wide default is not applied in its
\* place even when it is well-formed: the value resolved is the header's,
\* the delay family it names is not the honoured one and the delay slept is
\* one the remaining families give; an ill-formed status, error keyword or
\* chaos rate never makes its step handle the request.
C33_NoFallback ==
    \A w \in Workers :
        /\ \A i \in 1..Len(DelayHeaders) :
              (Delayed(w) /\ Unparsed(w, DelayHeaders[i])) =>
                  /\ DelayHeaders[i] \in DOMAIN loc[w].directive =>
                         loc[w].directive[DelayHeaders[i]] = req[w].hdr[DelayHeaders[i]]
                  /\ loc[w].family # FamilyNames[i]
                  /\ loc[w].slept \in DelaysWithout(w, DelayHeaders[i])
        /\ Injected(w) =>
              /\ UnparsedStatus(w) => loc[w].handledBy # "status"
              /\ UnparsedError(w) => loc[w].handledBy # "error"
              /\ UnparsedChaos(w) => loc[w].handledBy # "chaos"

\* the delay header does not parse while the default delay is well-formed:
\* no delay was slept
C33_Witness ==
    \E w \in Workers :
        /\ Delayed(w)
        /\ pc[w] = "done"
        /\ Unparsed(w, "X-Echo-Delay")
        /\ Parses("X-Echo-Delay", environ[EnvOf("X-Echo-Delay")])
        /\ loc[w].family = "none"
        /\ loc[w].slept = 0

\* --------------------------------------------- delays of scenario responses
\* fixed delays below and above the ceiling, ranges below and across it, and
\* a range whose bounds are reversed
DelayDef1 ==
    <<Response(200, <<"4", "0", "0", "0", "0", "0", "m", "s">>, "fixed"),
      Response(201, <<"2", "9", "9", "9", "9", "9", "-", "3", "0", "0", "0", "0", "1", "m", "s">>, "range"),
      Response(202, DELAY2, "")>>

DelayDef2 ==
    <<Response(200, DELAY2, "low"), Response(201, <<"3", "-", "2", "m", "s">>, "reversed"),
      Response(202, DELAY1, "five")>>

ScenarioDelayPosts == {Post(<<Scenario("/a", DelayDef1)>>), Post(<<Scenario("/a", DelayDef2)>>)}

InitScenarioDelay == InitWith({0}, {NoEnviron}, {<<>>})

NextScenarioDelay ==
    \E w \in Workers :
        \/ Accept(w, IF started = 0 THEN ScenarioDelayPosts ELSE {}, TRUE)
        \/ Accept(w, IF started > 0 THEN SeqEchoRequests ELSE {}, TRUE)
        \/ EchoSteps(w)
        \/ ScenarioSteps(w)
        \/ PostSteps(w)

SpecScenarioDelay == InitScenarioDelay /\ [][NextScenarioDelay]_vars

\* the request was answered from a scenario entry
Answered(w) == pc[w] = "done" /\ resp[w].scenario /\ loc[w].picked # <<>>

\* the entry's delay is a range N-M with N <= M
IsRange(delay) ==
    /\ Contains(delay, "-")
    /\ TwoIntegers(delay, "-")
    /\ Part(delay, "-", 1).val <= Part(delay, "-", 2).val

\* C34: the delay attached to a scenario response, fixed or a range, never
\* exceeds 300000 ms, and for a range N-M with N <= M it lies in [N, M]
\* capped at 300000.
C34_ScenarioDelayCeiling ==
    \A w \in Workers :
        Answered(w) =>
            LET delay == loc[w].picked[1].Delay
            IN  /\ loc[w].scenarioSlept <= maxDelay
                /\ IsRange(delay) =>
                       /\ loc[w].scenarioSlept >= Min(Part(delay, "-", 1).val, maxDelay)
                       /\ loc[w].scenarioSlept <= Min(Part(delay, "-", 2).val, maxDelay)

\* C35: for every definition that POST /scenario installed, one with an
\* empty responses list included, a later request to its path completes
\* without a runtime failure: it is answered from the definition or reported
\* not handled and rendered as an echo.
C35_InstalledNeverFails ==
    \A w \in Workers :
        (req[w].kind = "echo" /\ req[w].path \in DOMAIN scenarios) =>
            /\ pc[w] # "panic"
            /\ pc[w] = "done" => (resp[w].scenario \/ loc[w].handledBy = "none")

\* what a map holds for a path: the value in a one-element sequence, or <<>>
Held(m, q) == IF q \in DOMAIN m THEN <<m[q]>> ELSE <<>>

\* the paths a request in flight concerns: its own, or those its payload lists
Concerned(w) ==
    IF req[w].kind = "post"
    THEN {req[w].payload[i].Path : i \in 1..Len(req[w].payload)}
    ELSE {req[w].path}

Undefined(w) ==
    req[w].kind = "echo" /\ pc[w] \in {"scn_load", "render"}
        /\ req[w].path \notin DOMAIN scenarios

\* C36: scenario state is independent per path: a step of a request to path
\* p, or of a POST /scenario that lists only p, leaves the definition and
\* the cursor of every other path unchanged; a request to a path with no
\* definition is reported not handled and changes no definition and no
\* cursor.
C36_PathsIndependent ==
    [][\A w \in Workers :
          pc'[w] # pc[w] =>
              /\ \A q \in Paths :
                    (pc[w] = "idle" \/ q \notin Concerned(w)) =>
                        /\ Held(scenarios', q) = Held(scenarios, q)
                        /\ Held(scenarioIndex', q) = Held(scenarioIndex, q)
              /\ Undefined(w) =>
                    /\ scenarios' = scenarios
                    /\ scenarioIndex' = scenarioIndex
                    /\ pc'[w] \in {"render", "done"}
                    /\ ~resp'[w].scenario]_vars

\* /a was replaced by a POST that lists only /a after a request to /b had
\* advanced the cursor of /b: /b kept its definition and its cursor
C36_Witness ==
    /\ DOMAIN scenarios = {"/a", "/b"}
    /\ scenarios["/a"] = Def2
    /\ scenarios["/b"] = Def2
    /\ scenarioIndex["/a"] = 0
    /\ scenarioIndex["/b"] = 1
    /\ replaced["/a"].len = Len(Def1)

\* the records ever appended under the id that the replay of w names
Namesakes(w) == {i \in 1..Len(recorded) : recorded[i].ID = req[w].replayID}

StillRetained(e) == \E j \in 1..Len(requestHistory) : requestHistory[j] = e

\* the replay of w has scanned the history and found a record
Scanned(w) == req[w].kind = "replay" /\ pc[w] = "rp_send" /\ loc[w].found

\* C37: history ids are not unique: the record that a re-issued request
\* appends carries the id of the record it was replayed from, and a replay
\* by id uses the oldest record with that id that is still retained: every
\* older record with the id has been evicted.
C37_OldestNamesake ==
    \A w \in Workers :
        /\ Scanned(w) =>
              /\ loc[w].record.ID = req[w].replayID
              /\ StillRetained(loc[w].record)
              /\ \A i \in Namesakes(w) :
                    recorded[i].Timestamp < loc[w].record.Timestamp =>
                        ~StillRetained(recorded[i])
        /\ (Replayed(w) /\ Len(recorded) > loc[w].before.recorded) =>
              /\ Len(recorded) = loc[w].before.recorded + 1
              /\ Len(recorded) \in Namesakes(w)
              /\ Cardinality(Namesakes(w)) >= 2

\* two records share an id, the older one has been evicted and the replay
\* found the younger one
C37_Witness ==
    \E w \in Workers :
        /\ Scanned(w)
        /\ Cardinality(Namesakes(w)) >= 2
        /\ loc[w].record.Timestamp = 2
        /\ recorded[1].ID = req[w].replayID
        /\ ~StillRetained(recorded[1])

\* ------------------------------------------------- the locks, concurrently
\* a recorded request, one that aborts after it was recorded, a listing, a
\* self-replay of a recorded id and a replay of an unknown id
LockRequests ==
    {ReplayEcho("id1", "GET", "", NoHeaders, <<>>, ""),
     ReplayEcho("id2", "GET", "", WithHeader("X-Echo-Jitter", <<"5", ",", "0">>), <<>>, "")}
    \cup HistoryRequests
    \cup {Replay("id1", "", FALSE), Replay("id4", "", FALSE)}

InitLocks == InitWith({1}, {NoEnviron}, {<<>>})

\* three requests in flight, one of them re-issued, take every lock in
\* every order
NextLocks ==
    \E w \in Workers :
        \/ Accept(w, IF started < 3 THEN LockRequests ELSE {}, FALSE)
        \/ RequestIDMiddleware(w)
        \/ EchoSteps(w)
        \/ RecordSteps(w)
        \/ HistoryList(w)
        \/ ReplayDecode(w)
        \/ ReplayLock(w)
        \/ ReplayLookup(w)
        \/ ReplaySendSelf(w)
        \/ ReplayReceive(w)

SpecLocks == InitLocks /\ [][NextLocks]_vars

\* the positions at which a handler holds the history lock, the counter lock
HistoryHeld == {"rec_append", "rec_evict", "rp_scan"}
CounterHeld == {"incr"}

Holds(w) == historyMutex = w \/ counterMutex = w

\* C38: no interleaving of request workers deadlocks on the locks: a worker
\* holds a lock only at a step that waits for no lock, so the holder can
\* always go on and release it; a replay that is sending or waiting for its
\* outbound request does not hold the history lock, so the recordRequest of
\* the re-issued request can acquire it; and a request that has terminated,
\* normally, with an error response or aborted, holds no lock.
C38_NoDeadlock ==
    /\ historyMutex # 0 =>
          /\ pc[historyMutex] \in HistoryHeld
          /\ ENABLED (\/ RecordAppend(historyMutex)
                      \/ RecordEvict(historyMutex)
                      \/ ReplayLookup(historyMutex))
    /\ counterMutex # 0 =>
          /\ pc[counterMutex] \in CounterHeld
          /\ ENABLED EchoIncrement(counterMutex)
    /\ \A w \in Workers :
          /\ pc[w] \in HistoryHeld => historyMutex = w
          /\ pc[w] \in CounterHeld => counterMutex = w
          /\ pc[w] \in {"rp_send", "rp_wait"} => ~Holds(w)
          /\ pc[w] \in Finished \cup {"idle"} => ~Holds(w)

\* while a self-replay waits for its outbound request, the re-issued request
\* holds the history lock inside recordRequest
C38_Witness ==
    \E w \in Workers :
        /\ SelfReplay(w)
        /\ pc[w] = "rp_wait"
        /\ historyMutex = loc[w].upstream
        /\ pc[loc[w].upstream] = "rec_evict"

\* ------------------------------------------------- the echo response body
\* requests with a body and every kind of X-Echo-Response-Size value, with
\* and without compression, and a body-less GET that names a size
SizedRequest(size, compress) ==
    [BaseRequest EXCEPT !.method = "POST", !.body = "hello",
                        !.responseSize = size, !.compress = compress]

RenderRequests ==
    {SizedRequest(<<>>, <<>>), SizedRequest(<<"3">>, <<>>), SizedRequest(<<"0">>, <<>>),
     SizedRequest(<<"-", "5">>, <<>>), SizedRequest(<<"a", "b", "c">>, <<>>),
     SizedRequest(<<"3">>, Kw_gzip), SizedRequest(<<>>, Kw_gzip),
     [BaseRequest EXCEPT !.responseSize = <<"3">>]}

InitRender == InitWith({0}, {NoEnviron}, {<<>>})

NextRender ==
    \E w \in Workers :
        \/ Accept(w, RenderRequests, TRUE)
        \/ EchoSteps(w)

SpecRender == InitRender /\ [][NextRender]_vars

\* the request was rendered as a normal echo and is not a body-less GET
Rendered(w) ==
    /\ req[w].kind = "echo"
    /\ pc[w] = "done"
    /\ loc[w].handledBy = "none"
    /\ ~resp[w].scenario
    /\ ~(req[w].method = "GET" /\ req[w].body = "")

\* the body the claim expects before compression
ExpectedBody(r) ==
    LET n == Atoi(r.responseSize)
    IN  IF r.responseSize # <<>> /\ ~n.err /\ n.val > 0
        THEN "random bytes: " \o ToString(n.val)
        ELSE r.body

\* C39: for a request that is not short-circuited and is not a body-less
\* GET, the response body before compression is the generated payload of n
\* bytes when X-Echo-Response-Size is a positive integer n, and the request
\* body unchanged in every other case, a size of zero, a negative size and a
\* size that is not an integer included.
C39_ResponseBody ==
    \A w \in Workers :
        Rendered(w) =>
            resp[w].body = IF resp[w].encoding = "gzip"
                           THEN "gzip(" \o ExpectedBody(req[w]) \o ")"
                           ELSE ExpectedBody(req[w])

====
